---------------------------- MODULE Spec2Model ----------------------------
(***************************************************************************)
(* Model of the raster pipeline of pem (src/src/pem/project.py and         *)
(* src/src/pem/conflict.py): the weighted overlay _setup_users_algebra and *)
(* the linear fuzzy normalization util_normalize_rasters, the per-group    *)
(* pipeline setup_users, the folder layout of setup_project and the        *)
(* pairwise conflict index of conflict.py.                                 *)
(*                                                                         *)
(* A raster file is a grid of cells plus its metadata.  A cell is a        *)
(* number; numbers are kept as exact fractions n/d, together with the      *)
(* IEEE-754 specials the code produces on the way (NaN, +-Inf) and the     *)
(* largest finite float32 that numpy.nan_to_num substitutes for +-Inf.     *)
(* Rounding of float32 is not modelled: arithmetic on finite values is     *)
(* exact.                                                                  *)
(***************************************************************************)
EXTENDS Integers, Sequences, FiniteSets, TLC

VARIABLES
    disk,     \* the file system: file name |-> raster
    call,     \* the call under way: the operation and its arguments
    status,   \* "pending", "ok", or the exception the call raised
    ret,      \* the value the call returned (a sequence of file names)
    reads,    \* the files opened by util_read_raster during the call, in order
    runs,     \* the processing.run invocations of the call, in order
    pc,       \* the statement of the running function that comes next
    locals,   \* the local variables of the running function
    steps,    \* the steps of the call carried out so far, in order
    now       \* the wall clock, in whole seconds

vars == <<disk, call, status, ret, reads, runs, pc, locals, steps, now>>

(***************************************************************************)
(* Bounds of the model.                                                    *)
(***************************************************************************)
MaxLayers == 2      \* longest list of rasters / weights
MaxVal    == 1      \* valid cells of the input rasters are 0..MaxVal
MaxWeight == 1      \* weights are -1..MaxWeight

\* the no-data sentinel (default of the in_nodata parameter)
in_nodata == -99999

(***************************************************************************)
(* Numbers.                                                                *)
(***************************************************************************)
Abs(x) == IF x < 0 THEN -x ELSE x

Sign(x) == IF x < 0 THEN -1 ELSE IF x > 0 THEN 1 ELSE 0

RECURSIVE GCD(_, _)
GCD(a, b) == IF b = 0 THEN a ELSE GCD(b, a % b)

\* the finite number n/d (d # 0), in lowest terms with a positive denominator
Fin(n, d) ==
    LET g == GCD(Abs(n), Abs(d))
        s == IF d < 0 THEN -1 ELSE 1
    IN  [k |-> "fin", n |-> (s * n) \div g, d |-> (s * d) \div g]

Num(n) == Fin(n, 1)

NaN == [k |-> "nan", n |-> 0, d |-> 0]

Inf(s) == [k |-> "inf", n |-> s, d |-> 0]

\* the largest finite float32, with sign s (numpy.finfo(float32).max / .min)
F32Max(s) == [k |-> "max", n |-> s, d |-> 0]

NoData == Num(in_nodata)

IsFin(a) == a.k = "fin"

\* IEEE-754 addition
FAdd(a, b) ==
    IF a.k = "nan" \/ b.k = "nan" THEN NaN
    ELSE IF a.k = "inf" /\ b.k = "inf" THEN (IF a.n = b.n THEN a ELSE NaN)
    ELSE IF a.k = "inf" THEN a
    ELSE IF b.k = "inf" THEN b
    ELSE Fin(a.n * b.d + b.n * a.d, a.d * b.d)

\* IEEE-754 multiplication
FMul(a, b) ==
    IF a.k = "nan" \/ b.k = "nan" THEN NaN
    ELSE IF a.k = "inf" \/ b.k = "inf"
         THEN (IF a.n = 0 \/ b.n = 0 THEN NaN ELSE Inf(Sign(a.n) * Sign(b.n)))
    ELSE Fin(a.n * b.n, a.d * b.d)

\* IEEE-754 division of a by the finite number b
FDiv(a, b) ==
    IF a.k = "nan" THEN NaN
    ELSE IF b.n = 0
         THEN (IF a.n = 0 THEN NaN ELSE Inf(Sign(a.n)))
    ELSE IF a.k = "inf" THEN Inf(Sign(a.n) * Sign(b.n))
    ELSE Fin(a.n * b.d, a.d * b.n)

\* IEEE-754 subtraction
FSub(a, b) == FAdd(a, FMul(b, Fin(-1, 1)))

\* a <= b for numbers that are finite or the largest finite float32
FLeq(a, b) ==
    IF a.k = "max" /\ b.k = "max" THEN a.n <= b.n
    ELSE IF a.k = "max" THEN a.n < 0
    ELSE IF b.k = "max" THEN b.n > 0
    ELSE a.n * b.d <= b.n * a.d

(***************************************************************************)
(* Arrays (numpy.ndarray of two dimensions): a sequence of rows, each a    *)
(* sequence of cells.  None is the empty sequence.                         *)
(***************************************************************************)
None == <<>>

\* an array with every cell evaluated (numpy evaluates eagerly)
Strict(a) == [i \in 1..Len(a) |-> a[i] \o <<>>] \o <<>>

Shape(a) == <<Len(a), Len(a[1])>>

\* numpy.zeros_like(a)
zeros_like(a) == [i \in 1..Len(a) |-> [j \in 1..Len(a[i]) |-> Num(0)]]

\* a faulty variant: the no-data cells are left as they are
nodata_kept(data) == data

\* data[data == in_nodata] = np.nan
nodata_to_nan(data) ==
    [i \in 1..Len(data) |->
        [j \in 1..Len(data[i]) |-> IF data[i][j] = NoData THEN NaN ELSE data[i][j]]]

\* data * w for a scalar w
array_times(data, w) ==
    [i \in 1..Len(data) |-> [j \in 1..Len(data[i]) |-> FMul(data[i][j], w)]]

\* a / w for a scalar w
array_over(a, w) ==
    [i \in 1..Len(a) |-> [j \in 1..Len(a[i]) |-> FDiv(a[i][j], w)]]

\* numpy broadcasting of an operand of shape sb into an in-place target of
\* shape sa: every dimension of the operand is that of the target, or 1
can_broadcast_into(sa, sb) ==
    /\ sb[1] = sa[1] \/ sb[1] = 1
    /\ sb[2] = sa[2] \/ sb[2] = 1

\* a += b (defined when can_broadcast_into(Shape(a), Shape(b)))
iadd(a, b) ==
    [i \in 1..Len(a) |->
        [j \in 1..Len(a[i]) |->
            FAdd(a[i][j],
                 b[IF Len(b) = 1 THEN 1 ELSE i][IF Len(b[1]) = 1 THEN 1 ELSE j])]]

\* numpy.nan_to_num(a, nan=nan): NaN becomes nan, +-Inf the largest finite
\* float32 of that sign
nan_to_num(a, nan) ==
    [i \in 1..Len(a) |->
        [j \in 1..Len(a[i]) |->
            IF a[i][j].k = "nan" THEN nan
            ELSE IF a[i][j].k = "inf" THEN F32Max(a[i][j].n)
            ELSE a[i][j]]]

\* Python's sum() of a list of numbers
RECURSIVE sum(_)
sum(ls) == IF Len(ls) = 0 THEN 0 ELSE ls[1] + sum(Tail(ls))

(***************************************************************************)
(* Raster files.                                                           *)
(***************************************************************************)
\* util_read_raster: the band as an array, and the metadata of the file
util_read_raster(d, file_input) ==
    [data |-> d[file_input].data, metadata |-> d[file_input].metadata]

\* util_write_raster: the disk after grid_output is written to file_output
\* with the projection and geotransform of dc_metadata
util_write_raster(d, grid_output, dc_metadata, file_output) ==
    [f \in DOMAIN d \cup {file_output} |->
        IF f = file_output
        THEN [data |-> grid_output,
              metadata |-> [raster_projection |-> dc_metadata.raster_projection,
                            raster_geotransform |-> dc_metadata.raster_geotransform]]
        ELSE d[f]]

(***************************************************************************)
(* _setup_users_algebra                                                    *)
(***************************************************************************)
ErrSameSize == "ValueError: List of files and weights not the same size"
ErrBroadcast == "ValueError: operands could not be broadcast together"
ErrNoneDiv == "TypeError: unsupported operand type(s) for /: 'NoneType' and 'int'"

\* the loop over range(len(ls_rasters)), from index i on
RECURSIVE algebra_loop(_, _, _, _, _, _, _)
algebra_loop(d, ls_rasters, ls_weights, i, weighted_sum, out_metadata, rd) ==
    IF i > Len(ls_rasters)
    THEN [status |-> "ok", weighted_sum |-> weighted_sum,
          out_metadata |-> out_metadata, reads |-> rd]
    ELSE
        LET w == Num(ls_weights[i])
            raster_dict == util_read_raster(d, ls_rasters[i])
            data == nodata_to_nan(raster_dict.data)
            first == weighted_sum = None
            acc == IF first THEN zeros_like(data) ELSE weighted_sum
            meta == IF first THEN raster_dict.metadata ELSE out_metadata
            rd2 == Append(rd, ls_rasters[i])
        IN  IF ~can_broadcast_into(Shape(acc), Shape(data))
            THEN [status |-> ErrBroadcast, weighted_sum |-> acc,
                  out_metadata |-> meta, reads |-> rd2]
            ELSE algebra_loop(d, ls_rasters, ls_weights, i + 1,
                              Strict(iadd(acc, array_times(data, w))), meta, rd2)

\* a faulty variant: only too few weights are refused
same_size_or_longer(ls_rasters, ls_weights) == Len(ls_rasters) <= Len(ls_weights)

\* if len(ls_rasters) != len(ls_weights): raise ValueError
same_size(ls_rasters, ls_weights) == Len(ls_rasters) = Len(ls_weights)

\* a faulty variant: the number of layers instead of the sum of the weights
total_weight_count(ls_weights) == Len(ls_weights)

\* total_weight = sum(ls_weights)
total_weight(ls_weights) == sum(ls_weights)

\* the whole call: the exception or "ok", the disk it leaves, the files it
\* read and the value it returns
_setup_users_algebra(d, ls_rasters, ls_weights, file_output) ==
    IF ~same_size(ls_rasters, ls_weights)
    THEN [status |-> ErrSameSize, disk |-> d, reads |-> <<>>, ret |-> <<>>]
    ELSE
        LET tw == total_weight(ls_weights)
            lp == algebra_loop(d, ls_rasters, ls_weights, 1, None, None, <<>>)
        IN  IF lp.status # "ok"
            THEN [status |-> lp.status, disk |-> d, reads |-> lp.reads, ret |-> <<>>]
            ELSE IF lp.weighted_sum = None
            THEN [status |-> ErrNoneDiv, disk |-> d, reads |-> lp.reads, ret |-> <<>>]
            ELSE
                LET weighted_avg == array_over(lp.weighted_sum, Num(tw))
                    final_data == Strict(nan_to_num(weighted_avg, NoData))
                IN  [status |-> "ok",
                     disk |-> util_write_raster(d, final_data, lp.out_metadata,
                                                file_output),
                     reads |-> lp.reads,
                     ret |-> <<file_output>>]

(***************************************************************************)
(* util_normalize_rasters (project.py) and its copy _util_normalize_rasters *)
(* (conflict.py)                                                           *)
(***************************************************************************)
\* Python's None, and a local variable that was never assigned
PyNone == [k |-> "none", n |-> 0, d |-> 0]

Unbound == [k |-> "unbound", n |-> 0, d |-> 0]

ErrUnbound == "UnboundLocalError: local variable 'vmin' referenced before assignment"
ErrFuzzyBounds == "QgsProcessingException: Please choose varying values for the high and low membership parameters"

\* the cells of an array, as a set
CellsOf(data) == UNION {{data[i][j] : j \in 1..Len(data[i])} : i \in 1..Len(data)}

\* util_get_raster_stats(full=True): numpy.nanmin and numpy.nanmax of the
\* band as util_read_raster returns it (no cell is masked)
util_get_raster_stats(d, input_raster) ==
    LET data == util_read_raster(d, input_raster).data
        cells == CellsOf(data)
    IN  [min |-> CHOOSE x \in cells : \A y \in cells : FLeq(x, y),
         max |-> CHOOSE x \in cells : \A y \in cells : FLeq(y, x)]

\* the assignments to vmin and vmax of one loop iteration, vmin0 being the
\* value vmin holds when the iteration starts
pick_bounds(force_vmin, dc_stats, vmin0) ==
    [vmin |-> IF force_vmin # PyNone THEN force_vmin ELSE vmin0,
     vmax |-> dc_stats.max]

\* faulty variants of the statement below: no change of equal bounds, the
\* upper bound doubled, the lower bound lowered
bump_none(vmin, vmax) == [vmin |-> vmin, vmax |-> vmax]

bump_twice(vmin, vmax) ==
    [vmin |-> vmin, vmax |-> IF vmin = vmax THEN FMul(vmax, Num(2)) ELSE vmax]

bump_low(vmin, vmax) ==
    [vmin |-> IF vmin = vmax THEN FSub(vmin, Num(1)) ELSE vmin, vmax |-> vmax]

\* if vmin == vmax: vmax = vmax + 1  (the bounds after the statement)
bump(vmin, vmax) ==
    [vmin |-> vmin, vmax |-> IF vmin = vmax THEN FAdd(vmax, Num(1)) ELSE vmax]

\* file_output = p.parent / f"{p.stem}_{suffix}.tif"
fz_name(r, suffix) == r \o "_" \o suffix

\* the linear membership of a valid cell: clamp((v - low) / (high - low), 0, 1)
fuzzy_value(v, low, high) ==
    LET x == FDiv(FSub(v, low), FSub(high, low))
    IN  IF FLeq(x, Num(0)) THEN Num(0)
        ELSE IF FLeq(Num(1), x) THEN Num(1)
        ELSE x

\* processing.run("native:fuzzifyrasterlinearmembership", dc_specs): the
\* algorithm refuses equal bounds; no-data cells stay no-data
fuzzifyrasterlinearmembership(d, dc_specs) ==
    IF dc_specs.FUZZYLOWBOUND = dc_specs.FUZZYHIGHBOUND
    THEN [status |-> ErrFuzzyBounds, disk |-> d]
    ELSE
        LET src == d[dc_specs.INPUT]
            out == [i \in 1..Len(src.data) |->
                      [j \in 1..Len(src.data[i]) |->
                          IF src.data[i][j] = NoData THEN NoData
                          ELSE fuzzy_value(src.data[i][j], dc_specs.FUZZYLOWBOUND,
                                           dc_specs.FUZZYHIGHBOUND)]]
        IN  [status |-> "ok",
             disk |-> [f \in DOMAIN d \cup {dc_specs.OUTPUT} |->
                          IF f = dc_specs.OUTPUT
                          THEN [data |-> Strict(out), metadata |-> src.metadata]
                          ELSE d[f]]]

\* the loop over ls_rasters, from index i on
RECURSIVE normalize_loop(_, _, _, _, _, _, _, _, _)
normalize_loop(d, ls_rasters, suffix, force_vmin, i, vmin0, ls_new_rasters, rd, rn) ==
    IF i > Len(ls_rasters)
    THEN [status |-> "ok", disk |-> d, reads |-> rd, runs |-> rn,
          ret |-> ls_new_rasters]
    ELSE
        LET r == ls_rasters[i]
            file_output == fz_name(r, suffix)
            dc_stats == util_get_raster_stats(d, r)
            rd2 == Append(rd, r)
            b == pick_bounds(force_vmin, dc_stats, vmin0)
        IN  IF b.vmin = Unbound
            THEN [status |-> ErrUnbound, disk |-> d, reads |-> rd2, runs |-> rn,
                  ret |-> <<>>]
            ELSE
                LET b2 == bump(b.vmin, b.vmax)
                    dc_specs == [INPUT |-> r,
                                 BAND |-> 1,
                                 FUZZYLOWBOUND |-> b2.vmin,
                                 FUZZYHIGHBOUND |-> b2.vmax,
                                 OUTPUT |-> file_output]
                    pr == fuzzifyrasterlinearmembership(d, dc_specs)
                    rn2 == Append(rn, dc_specs)
                IN  IF pr.status # "ok"
                    THEN [status |-> pr.status, disk |-> d, reads |-> rd2,
                          runs |-> rn2, ret |-> <<>>]
                    ELSE normalize_loop(pr.disk, ls_rasters, suffix, force_vmin,
                                        i + 1, b.vmin, Append(ls_new_rasters, file_output),
                                        rd2, rn2)

util_normalize_rasters(d, ls_rasters, suffix, force_vmin) ==
    normalize_loop(d, ls_rasters, suffix, force_vmin, 1, Unbound, <<>>, <<>>, <<>>)

_util_normalize_rasters(d, ls_rasters, suffix, force_vmin) ==
    util_normalize_rasters(d, ls_rasters, suffix, force_vmin)

(***************************************************************************)
(* The inputs the model draws.                                             *)
(***************************************************************************)
FileName(i) == "layer" \o ToString(i)

\* the list of the first k input files
FileList(k) == [i \in 1..k |-> FileName(i)]

MetadataOf(f) ==
    [raster_projection |-> "proj_" \o f, raster_geotransform |-> "gt_" \o f]

InputCells == {NoData} \cup {Num(v) : v \in 0..MaxVal}

\* the shapes (rows, columns) of the input rasters: one row of one or two
\* cells, so that lists of equal and of unequal shapes are both drawn
Shapes == {<<1, 1>>, <<1, 2>>}

Grids == UNION {[1..s[1] -> [1..s[2] -> InputCells]] : s \in Shapes}

Weights == (-1)..MaxWeight

WeightLists == UNION {[1..m -> Weights] : m \in 0..MaxLayers}

\* a disk holding the first k input files with the grids g[1..k]
DiskOf(k, g) ==
    [f \in {FileName(i) : i \in 1..k} |->
        [data |-> g[CHOOSE i \in 1..k : FileName(i) = f],
         metadata |-> MetadataOf(f)]]

NoCall == [op |-> "none", ls_rasters |-> <<>>, ls_weights |-> <<>>,
           file_output |-> "", force_vmin |-> PyNone]

(***************************************************************************)
(* Specification of one call of _setup_users_algebra on drawn inputs.      *)
(***************************************************************************)
InitAlgebra ==
    \E k \in 0..MaxLayers :
        \E g \in [1..k -> Grids] :
            \E ws \in WeightLists :
                /\ disk = DiskOf(k, g)
                /\ call = [NoCall EXCEPT !.op = "_setup_users_algebra",
                                         !.ls_rasters = FileList(k),
                                         !.ls_weights = ws,
                                         !.file_output = "group_wavg"]
                /\ status = "pending"
                /\ ret = <<>>
                /\ reads = <<>>
                /\ runs = <<>>
                /\ pc = "call"
                /\ locals = <<>>
                /\ steps = <<>>
                /\ now = 0

setup_users_algebra ==
    /\ call.op = "_setup_users_algebra"
    /\ status = "pending"
    /\ \E r \in {_setup_users_algebra(disk, call.ls_rasters, call.ls_weights,
                                     call.file_output)} :
           /\ status' = r.status
           /\ disk' = r.disk
           /\ reads' = r.reads
           /\ ret' = r.ret
    /\ UNCHANGED <<now, call, runs, pc, locals, steps>>

NextAlgebra == setup_users_algebra

SpecAlgebra == InitAlgebra /\ [][NextAlgebra]_vars

(***************************************************************************)
(* Specification of one call of util_normalize_rasters on drawn inputs.    *)
(***************************************************************************)
ForceVmins == {PyNone} \cup {Num(v) : v \in 0..MaxVal}

InitNormalize ==
    \E k \in 0..MaxLayers :
        \E g \in [1..k -> Grids] :
            \E fv \in ForceVmins :
                /\ disk = DiskOf(k, g)
                /\ call = [NoCall EXCEPT !.op = "util_normalize_rasters",
                                         !.ls_rasters = FileList(k),
                                         !.force_vmin = fv]
                /\ status = "pending"
                /\ ret = <<>>
                /\ reads = <<>>
                /\ runs = <<>>
                /\ pc = "call"
                /\ locals = <<>>
                /\ steps = <<>>
                /\ now = 0

normalize_rasters ==
    /\ call.op = "util_normalize_rasters"
    /\ status = "pending"
    /\ \E r \in {util_normalize_rasters(disk, call.ls_rasters, "fz",
                                       call.force_vmin)} :
           /\ status' = r.status
           /\ disk' = r.disk
           /\ reads' = r.reads
           /\ runs' = r.runs
           /\ ret' = r.ret
    /\ UNCHANGED <<now, call, pc, locals, steps>>

NextNormalize == normalize_rasters

SpecNormalize == InitNormalize /\ [][NextNormalize]_vars

(***************************************************************************)
(* Properties of _setup_users_algebra (checked under SpecAlgebra).         *)
(***************************************************************************)
AlgebraDone == call.op = "_setup_users_algebra" /\ status # "pending"

\* the grid of the i-th input layer, and the grid written to file_output
LayerGrid(i) == disk[call.ls_rasters[i]].data

OutGrid == disk[call.file_output].data

NLayers == Len(call.ls_rasters)

Cols(g) == 1..Len(g[1])

EqualShapes ==
    \A i, j \in 1..NLayers : Shape(LayerGrid(i)) = Shape(LayerGrid(j))

NoNoDataCell ==
    \A i \in 1..NLayers :
        \A r \in 1..Len(LayerGrid(i)) :
            \A c \in Cols(LayerGrid(i)) : LayerGrid(i)[r][c] # NoData

\* sum_i(layer_i[r][c] * w_i) for integer-valued layers
SumProd(r, c) ==
    sum([i \in 1..NLayers |-> LayerGrid(i)[r][c].n * call.ls_weights[i]])

\* C1: for equally shaped layers without no-data cells and as many weights
\* with a positive sum, the call writes at every cell the weighted mean
\* sum_i(layer_i[p] * w_i) / sum(w).
C1_WeightedMean ==
    (/\ AlgebraDone
     /\ NLayers >= 1
     /\ Len(call.ls_weights) = NLayers
     /\ EqualShapes
     /\ NoNoDataCell
     /\ sum(call.ls_weights) > 0)
    => /\ status = "ok"
       /\ call.file_output \in DOMAIN disk
       /\ Shape(OutGrid) = Shape(LayerGrid(1))
       /\ \A r \in 1..Len(OutGrid) :
            \A c \in Cols(OutGrid) :
                /\ OutGrid[r][c].k = "fin"
                /\ OutGrid[r][c].n * sum(call.ls_weights)
                     = OutGrid[r][c].d * SumProd(r, c)

\* two layers with different weights gave a mean that is no input value
C1_Witness ==
    /\ AlgebraDone
    /\ status = "ok"
    /\ NLayers = 2
    /\ EqualShapes
    /\ NoNoDataCell
    /\ call.ls_weights = <<1, 0>>
    /\ Shape(OutGrid) = <<1, 2>>
    /\ LayerGrid(1)[1][2] # LayerGrid(2)[1][2]
    /\ OutGrid[1][2] = LayerGrid(1)[1][2]

\* C2: a cell that is no-data in at least one input layer is no-data in the
\* output, whatever the other layers hold and wherever that layer stands.
C2_NoDataPropagates ==
    (AlgebraDone /\ status = "ok")
    => \A i \in 1..NLayers :
          \A r \in 1..Len(LayerGrid(i)) :
             \A c \in Cols(LayerGrid(i)) :
                LayerGrid(i)[r][c] = NoData => OutGrid[r][c] = NoData

\* the second of two layers is no-data where the first holds a value
C2_Witness ==
    /\ AlgebraDone
    /\ status = "ok"
    /\ NLayers = 2
    /\ LayerGrid(1)[1][1] # NoData
    /\ LayerGrid(2)[1][1] = NoData
    /\ OutGrid[1][1] = NoData

\* C3: with lists of different lengths the call fails with the ValueError
\* before any raster is read and without writing an output file.
C3_LengthMismatchFails ==
    (AlgebraDone /\ Len(call.ls_rasters) # Len(call.ls_weights))
    => /\ status = ErrSameSize
       /\ reads = <<>>
       /\ ret = <<>>
       /\ call.file_output \notin DOMAIN disk

\* two layers, one weight (the scenario of the specification)
C3_Witness ==
    /\ AlgebraDone
    /\ Len(call.ls_rasters) = 2
    /\ Len(call.ls_weights) = 1
    /\ status = ErrSameSize

IsError == status \notin {"pending", "ok"}

\* C4: weights that sum to zero make the call fail and write no output.
C4_ZeroWeightFails ==
    (/\ AlgebraDone
     /\ Len(call.ls_weights) = NLayers
     /\ NLayers >= 1
     /\ EqualShapes
     /\ sum(call.ls_weights) = 0)
    => /\ IsError
       /\ call.file_output \notin DOMAIN disk

\* C5: layers that do not all share one shape make the call fail and write
\* no output.
C5_GridMismatchFails ==
    (/\ AlgebraDone
     /\ Len(call.ls_weights) = NLayers
     /\ sum(call.ls_weights) > 0
     /\ ~EqualShapes)
    => /\ IsError
       /\ call.file_output \notin DOMAIN disk

Perms(n) == {p \in [1..n -> 1..n] : \A i, j \in 1..n : p[i] = p[j] => i = j}

Permuted(ls, p) == [i \in 1..Len(ls) |-> ls[p[i]]]

\* the disk the call started from: the input files
InputDisk == [f \in DOMAIN disk \ {call.file_output} |-> disk[f]]

\* the call on the layer list and the weight list permuted by p gives the
\* outcome of the call that was made
SameUnderPermutation(p) ==
    LET r == _setup_users_algebra(InputDisk, Permuted(call.ls_rasters, p),
                                  Permuted(call.ls_weights, p), call.file_output)
    IN  /\ (r.status = "ok") = (status = "ok")
        /\ status = "ok" => r.disk[call.file_output].data = OutGrid

\* C6: applying one permutation to the layer list and the weight list leaves
\* every output cell unchanged.
C6_PermutationInvariant ==
    (AlgebraDone /\ Len(call.ls_weights) = NLayers)
    => \A p \in Perms(NLayers) : SameUnderPermutation(p)

\* the same, for the lists of equally shaped layers only
PermutationInvariantOnEqualShapes ==
    (AlgebraDone /\ Len(call.ls_weights) = NLayers /\ EqualShapes)
    => \A p \in Perms(NLayers) : SameUnderPermutation(p)

(***************************************************************************)
(* Properties of util_normalize_rasters (checked under SpecNormalize).     *)
(***************************************************************************)
NormalizeDone == call.op = "util_normalize_rasters" /\ status # "pending"

\* the grid written for the i-th input raster
FzGrid(i) == disk[fz_name(call.ls_rasters[i], "fz")].data

\* the maximum and the minimum the code observes in the i-th input raster
ObservedMax(i) == util_get_raster_stats(disk, call.ls_rasters[i]).max

ObservedMin(i) == util_get_raster_stats(disk, call.ls_rasters[i]).min

InUnitInterval(x) == x.k = "fin" /\ 0 <= x.n /\ x.n <= x.d

\* C7: for every input raster a raster is produced in which every valid
\* cell lies in [0, 1] and every no-data cell is no-data.
C7_NormalizedInUnitInterval ==
    (NormalizeDone /\ call.force_vmin # PyNone)
    => /\ status = "ok"
       /\ Len(ret) = NLayers
       /\ \A i \in 1..NLayers :
            /\ ret[i] \in DOMAIN disk
            /\ Shape(FzGrid(i)) = Shape(LayerGrid(i))
            /\ \A r \in 1..Len(LayerGrid(i)) :
                 \A c \in Cols(LayerGrid(i)) :
                    IF LayerGrid(i)[r][c] = NoData
                    THEN FzGrid(i)[r][c] = NoData
                    ELSE InUnitInterval(FzGrid(i)[r][c])

\* a raster with a no-data cell beside the values 0 and 1 was normalized
\* against a lower bound of 0
C7_Witness ==
    /\ NormalizeDone
    /\ status = "ok"
    /\ NLayers = 2
    /\ call.force_vmin = Num(0)
    /\ LayerGrid(1) = <<<<NoData, Num(1)>>>>
    /\ FzGrid(1) = <<<<NoData, Num(1)>>>>
    /\ LayerGrid(2) = <<<<Num(0), Num(1)>>>>
    /\ FzGrid(2) = <<<<Num(0), Num(1)>>>>

\* C8: the bounds handed to the fuzzy-membership step are never equal: when
\* vmin equals the observed maximum, the upper bound handed over is that
\* maximum plus 1.
C8_BoundsNeverEqual ==
    NormalizeDone
    => \A j \in 1..Len(runs) :
          LET mx == util_get_raster_stats(disk, runs[j].INPUT).max
          IN  /\ runs[j].FUZZYLOWBOUND # runs[j].FUZZYHIGHBOUND
              /\ runs[j].FUZZYLOWBOUND = call.force_vmin
              /\ runs[j].FUZZYHIGHBOUND
                   = IF call.force_vmin = mx THEN FAdd(mx, Num(1)) ELSE mx

\* a raster whose maximum is the lower bound 0 was handed over with the
\* bounds 0 and 1
C8_Witness ==
    /\ NormalizeDone
    /\ Len(runs) >= 1
    /\ ObservedMax(1) = Num(0)
    /\ runs[1].FUZZYLOWBOUND = Num(0)
    /\ runs[1].FUZZYHIGHBOUND = Num(1)

\* C9: normalizing a raster whose observed maximum equals vmin does not
\* raise and yields 0 at every valid cell.
C9_ConstantRasterYieldsZero ==
    (NormalizeDone /\ call.force_vmin # PyNone)
    => \A i \in 1..NLayers :
          ObservedMax(i) = call.force_vmin
          => /\ status = "ok"
             /\ \A r \in 1..Len(LayerGrid(i)) :
                  \A c \in Cols(LayerGrid(i)) :
                     LayerGrid(i)[r][c] # NoData => FzGrid(i)[r][c] = Num(0)

\* a raster that is 1 everywhere was normalized against a lower bound of 1
C9_Witness ==
    /\ NormalizeDone
    /\ status = "ok"
    /\ NLayers >= 1
    /\ call.force_vmin = Num(1)
    /\ LayerGrid(1) = <<<<Num(1), Num(1)>>>>
    /\ FzGrid(1) = <<<<Num(0), Num(0)>>>>

\* C10: with force_vmin None every raster is normalized between its
\* observed minimum and its observed maximum.
C10_ObservedBoundsWhenNone ==
    (NormalizeDone /\ call.force_vmin = PyNone /\ NLayers >= 1 /\ NoNoDataCell)
    => /\ status = "ok"
       /\ Len(runs) = NLayers
       /\ \A i \in 1..NLayers :
            /\ runs[i].FUZZYLOWBOUND = ObservedMin(i)
            /\ runs[i].FUZZYHIGHBOUND
                 \in {ObservedMax(i), FAdd(ObservedMax(i), Num(1))}

(***************************************************************************)
(* Folders and files (project.py).  A path is a string, its parts joined   *)
(* by "/"; the path of a raster is written without its ".tif" extension.   *)
(* Besides rasters the disk holds folders and vector databases.            *)
(***************************************************************************)
\* Path(a) / b
Join(a, b) == a \o "/" \o b

Folder == [kind |-> "dir"]

\* Path.is_dir() and Path.is_file()
is_dir(d, p) == p \in DOMAIN d /\ "kind" \in DOMAIN d[p] /\ d[p].kind = "dir"

is_file(d, p) == p \in DOMAIN d /\ ~is_dir(d, p)

ErrFileNotFound(p) == "FileNotFoundError: " \o p

\* the first path of ls that is no file, or "ok"
RECURSIVE _file_checker(_, _)
_file_checker(d, ls) ==
    IF ls = <<>> THEN "ok"
    ELSE IF ~is_file(d, Head(ls)) THEN ErrFileNotFound(Head(ls))
    ELSE _file_checker(d, Tail(ls))

\* the first path of ls that is no folder, or "ok"
RECURSIVE _folder_checker(_, _)
_folder_checker(d, ls) ==
    IF ls = <<>> THEN "ok"
    ELSE IF ~is_dir(d, Head(ls)) THEN ErrFileNotFound(Head(ls))
    ELSE _folder_checker(d, Tail(ls))

\* _get_project_vars: the paths of the project, after the checks of the
\* project folder, the vector database and the reference raster
_get_project_vars(d, folder_project) ==
    LET folder_inputs == Join(folder_project, "inputs")
        vectors == Join(folder_inputs, "vectors.gpkg")
        refraster == Join(folder_inputs, "bathymetry")
        pvars == [folder_project |-> folder_project,
                  folder_inputs |-> folder_inputs,
                  folder_outputs |-> Join(folder_project, "outputs"),
                  vectors |-> vectors,
                  refraster |-> refraster]
        c1 == _folder_checker(d, <<folder_project>>)
        c2 == _file_checker(d, <<vectors, refraster>>)
    IN  IF c1 # "ok" THEN [status |-> c1, pvars |-> pvars]
        ELSE IF c2 # "ok" THEN [status |-> c2, pvars |-> pvars]
        ELSE [status |-> "ok",
              pvars |-> [folder_project |-> folder_project,
                         folder_inputs |-> folder_inputs,
                         folder_outputs |-> Join(folder_project, "outputs"),
                         vectors |-> vectors,
                         refraster |-> refraster,
                         crs |-> d[refraster].metadata.raster_projection,
                         ext |-> d[refraster].metadata.raster_geotransform]]

(***************************************************************************)
(* setup_users (project.py): the weights of the layers of a group.  A      *)
(* layer entry is a dict with the keys "name" and, optionally, "field"     *)
(* and "weight"; a weight is a number or None.                             *)
(***************************************************************************)
\* faulty variants of _list_weights: the default is 0; None is taken as 0
_list_weights_default0(ls_layers) ==
    [i \in 1..Len(ls_layers) |->
        LET w == IF "weight" \in DOMAIN ls_layers[i]
                 THEN ls_layers[i].weight ELSE Num(0)
        IN  IF w = PyNone THEN 1 ELSE w.n]

_list_weights(ls_layers) ==
    [i \in 1..Len(ls_layers) |->
        LET layer_dc == ls_layers[i]
            w == IF "weight" \in DOMAIN layer_dc THEN layer_dc.weight ELSE Num(1)
        IN  IF w = PyNone THEN 1 ELSE w.n]


(***************************************************************************)
(* setup_users: the resolution of the layers of a group to rasters on the  *)
(* grid of the reference raster.  A vector database on disk holds, for     *)
(* each of its layers, the cells its features cover and the value of each  *)
(* of its fields.                                                          *)
(***************************************************************************)
ErrEmptyVectors == "ValueError: Vector layer list empty"
ErrEmptyRasters == "ValueError: Raster layer list empty"
ErrField(field) == "ValueError: Field '" \o field \o "' not found in database."
ErrIndex == "IndexError: list index out of range"

\* the disk after entry is written to path f
write_file(d, f, entry) ==
    [x \in DOMAIN d \cup {f} |-> IF x = f THEN entry ELSE d[x]]

\* layers = [layer["name"] for layer in ...]
layer_names(ls_layers) == [i \in 1..Len(ls_layers) |-> ls_layers[i].name]

\* util_reproject_vectors: the layers named are written, reprojected, to the
\* database name_out of folder_output (the layers are those of input_db)
util_reproject_vectors(d, input_db, layers, folder_output, name_out) ==
    LET dst_file == Join(folder_output, name_out \o ".gpkg")
        keep == {layers[i] : i \in 1..Len(layers)}
    IN  [disk |-> write_file(d, dst_file,
                     [kind |-> "gpkg",
                      layers |-> [n \in keep |-> d[input_db].layers[n]]]),
         ret |-> dst_file]

\* util_extractextent_vectors: the layers named are written, clipped to the
\* extent of the project, to the database name_out of folder_output
util_extractextent_vectors(d, input_db, layers, folder_output, name_out) ==
    util_reproject_vectors(d, input_db, layers, folder_output, name_out)

\* util_raster_blank: the input raster times zero, written to output_raster
util_raster_blank(d, output_raster, input_raster) ==
    LET src == d[input_raster]
        blank == [i \in 1..Len(src.data) |->
                    [j \in 1..Len(src.data[i]) |->
                        IF src.data[i][j] = NoData THEN NoData ELSE Num(0)]]
    IN  write_file(d, output_raster,
                   [data |-> Strict(blank), metadata |-> src.metadata])

\* util_get_vector_fields: the names of the fields of a layer
util_get_vector_fields(d, input_db, layer_name) ==
    DOMAIN d[input_db].layers[layer_name].fields

\* util_rasterize_layer with extra="-add": value is added to every cell of
\* input_raster that the features of the layer cover
util_rasterize_layer(d, input_raster, input_db, input_layer, value) ==
    LET old == d[input_raster]
        cover == d[input_db].layers[input_layer].cover
        new == [i \in 1..Len(old.data) |->
                  [j \in 1..Len(old.data[i]) |->
                      IF cover[i][j] = 1 THEN FAdd(old.data[i][j], Num(value))
                      ELSE old.data[i][j]]]
    IN  write_file(d, input_raster,
                   [data |-> Strict(new), metadata |-> old.metadata])

\* the rasterize loop of _setup_users_vectors, from layer i on
RECURSIVE vectors_loop(_, _, _, _, _, _, _)
vectors_loop(d, ls_layers, extracted, folder_output, reference_raster, i, ls_outputs) ==
    IF i > Len(ls_layers)
    THEN [status |-> "ok", disk |-> d, ret |-> ls_outputs]
    ELSE
        LET layer_dc == ls_layers[i]
            name == layer_dc.name
            file_raster == Join(folder_output, name)
            d1 == util_raster_blank(d, file_raster, reference_raster)
            use_field == "field" \in DOMAIN layer_dc /\ layer_dc.field # "None"
        IN  IF use_field
                /\ layer_dc.field \notin util_get_vector_fields(d1, extracted, name)
            THEN [status |-> ErrField(layer_dc.field), disk |-> d1, ret |-> <<>>]
            ELSE
                LET value == IF use_field
                             THEN d1[extracted].layers[name].fields[layer_dc.field]
                             ELSE 1
                    d2 == util_rasterize_layer(d1, file_raster, extracted, name, value)
                IN  vectors_loop(d2, ls_layers, extracted, folder_output,
                                 reference_raster, i + 1, Append(ls_outputs, file_raster))

\* _setup_users_vectors: the exception or "ok", the disk it leaves and the
\* rasters it returns
_setup_users_vectors(d, input_db, groups, folder_output, reference_raster) ==
    LET layers == layer_names(groups.vectors)
    IN  IF Len(layers) = 0
        THEN [status |-> ErrEmptyVectors, disk |-> d, ret |-> <<>>]
        ELSE
            LET rp == util_reproject_vectors(d, input_db, layers, folder_output,
                                             "users_reprojected")
                ex == util_extractextent_vectors(rp.disk, rp.ret, layers,
                                                 folder_output, "users_extracted")
            IN  vectors_loop(ex.disk, groups.vectors, ex.ret, folder_output,
                             reference_raster, 1, <<>>)

\* util_get_raster_crs(code_only=True): a file that cannot be opened has an
\* empty authority id, and "".split(":")[1] raises IndexError
util_get_raster_crs(d, file_input) ==
    IF is_file(d, file_input)
    THEN [status |-> "ok", ret |-> d[file_input].metadata.raster_projection]
    ELSE [status |-> ErrIndex, ret |-> ""]

\* processing.run("gdal:warpreproject", dc_params): the input raster on the
\* target projection and extent
warpreproject(d, dc_params) ==
    write_file(d, dc_params.OUTPUT,
               [data |-> d[dc_params.INPUT].data,
                metadata |-> [raster_projection |-> dc_params.TARGET_CRS,
                              raster_geotransform |-> dc_params.TARGET_EXTENT]])

\* the loop of _setup_users_rasters, from layer i on
RECURSIVE rasters_loop(_, _, _, _, _, _, _)
rasters_loop(d, ls_layers, folder_sources, dst_crs, dst_ext, folder_output, i) ==
    IF i > Len(ls_layers)
    THEN [status |-> "ok", disk |-> d,
          ret |-> [j \in 1..Len(ls_layers) |-> Join(folder_output, ls_layers[j].name)]]
    ELSE
        LET name == ls_layers[i].name
            file_output == Join(folder_output, name)
            file_input_raster == Join(folder_sources, name)
            src_crs == util_get_raster_crs(d, file_input_raster)
        IN  IF src_crs.status # "ok"
            THEN [status |-> src_crs.status, disk |-> d, ret |-> <<>>]
            ELSE rasters_loop(warpreproject(d, [INPUT |-> file_input_raster,
                                                SOURCE_CRS |-> src_crs.ret,
                                                TARGET_CRS |-> dst_crs,
                                                TARGET_EXTENT |-> dst_ext,
                                                OUTPUT |-> file_output]),
                              ls_layers, folder_sources, dst_crs, dst_ext,
                              folder_output, i + 1)

\* a faulty variant of _setup_users_rasters: an empty list is not refused
_setup_users_rasters_unchecked(d, folder_sources, groups, dst_crs, dst_ext, folder_output) ==
    rasters_loop(d, groups.rasters, folder_sources, dst_crs, dst_ext,
                 folder_output, 1)

\* a faulty variant of keys_check: only the first group is looked at
keys_check_first(groups, i) ==
    IF i > Len(groups) THEN "ok"
    ELSE IF "vectors" \notin DOMAIN groups[i].dc /\ "rasters" \notin DOMAIN groups[i].dc
    THEN "KeyError: On '" \o groups[i].name
         \o "' group >> neither 'vectors' or 'rasters' keys were found"
    ELSE "ok"

\* _setup_users_rasters: the exception or "ok", the disk it leaves and the
\* rasters it returns
_setup_users_rasters(d, folder_sources, groups, dst_crs, dst_ext, folder_output) ==
    IF Len(layer_names(groups.rasters)) = 0
    THEN [status |-> ErrEmptyRasters, disk |-> d, ret |-> <<>>]
    ELSE rasters_loop(d, groups.rasters, folder_sources, dst_crs, dst_ext,
                      folder_output, 1)

\* a faulty variant: the input is copied as it is
fillnodata_copy(d, dc) == write_file(d, dc.OUTPUT, d[dc.INPUT])

\* processing.run("native:fillnodata", dc): the no-data cells of the input
\* get the fill value
fillnodata(d, dc) ==
    LET src == d[dc.INPUT]
        out == [i \in 1..Len(src.data) |->
                  [j \in 1..Len(src.data[i]) |->
                      IF src.data[i][j] = NoData THEN Num(dc.FILL_VALUE)
                      ELSE src.data[i][j]]]
    IN  write_file(d, dc.OUTPUT, [data |-> Strict(out), metadata |-> src.metadata])


(***************************************************************************)
(* setup_users, statement by statement.  groups is the configuration in    *)
(* the order of its keys: a sequence of [name, dc], dc being the dict of   *)
(* the group.  A field that is None is the string "None".                  *)
(***************************************************************************)
ErrNoKeys(k) ==
    "KeyError: On '" \o k \o "' group >> neither 'vectors' or 'rasters' keys were found"

\* the loop that looks for a group without layers, from group i on
RECURSIVE keys_check(_, _)
keys_check(groups, i) ==
    IF i > Len(groups) THEN "ok"
    ELSE IF "vectors" \notin DOMAIN groups[i].dc /\ "rasters" \notin DOMAIN groups[i].dc
    THEN ErrNoKeys(groups[i].name)
    ELSE keys_check(groups, i + 1)

\* folder_output and folder_outputs_interm of setup_users
users_folder(folder_project, scenario) ==
    Join(folder_project, "inputs/users/" \o scenario)

interm_folder(folder_project, scenario) ==
    Join(folder_project, "outputs/" \o scenario \o "/intermediate")

\* the statements of setup_users before its main loop: the project
\* variables and the master check up
master_check(d, folder_project, groups, scenario) ==
    LET pv == _get_project_vars(d, folder_project)
        c1 == _folder_checker(d, <<interm_folder(folder_project, scenario)>>)
        c2 == _file_checker(d, <<pv.pvars.vectors, pv.pvars.refraster>>)
    IN  IF pv.status # "ok" THEN pv.status
        ELSE IF c1 # "ok" THEN c1
        ELSE IF c2 # "ok" THEN c2
        ELSE keys_check(groups, 1)

\* a faulty variant of the rule below: the loop goes on with the next group
resume_next_group(st, nxt, g, n) ==
    IF st = "ok" THEN [pc |-> nxt, g |-> g]
    ELSE IF g < n THEN [pc |-> "vectors", g |-> g + 1]
    ELSE [pc |-> "raised", g |-> g]

\* where the run goes on after a statement of group g of n that ended with
\* st: at nxt, or nowhere when an exception was raised (nothing catches it)
resume(st, nxt, g, n) ==
    IF st = "ok" THEN [pc |-> nxt, g |-> g] ELSE [pc |-> "raised", g |-> g]

\* a faulty variant of the test below: a single raster is overlaid as well
after_normalize_always(ls_normalized) ==
    IF Len(ls_normalized) >= 1 THEN "algebra" ELSE "fill"

\* if len(ls_normalized) > 1: the overlay and the second normalization
\* come next, else the final raster
after_normalize(ls_normalized) ==
    IF Len(ls_normalized) > 1 THEN "algebra" ELSE "fill"

\* the local variables when the loop body starts for group g
\* a faulty variant: the list of weights is not emptied for the group
FreshLocals_weights_kept(g) ==
    [g |-> g, ls_rasters |-> <<>>, ls_weights |-> <<1>>, ls_normalized |-> <<>>,
     file_raster |-> ""]

FreshLocals(g) ==
    [g |-> g, ls_rasters |-> <<>>, ls_weights |-> <<>>, ls_normalized |-> <<>>,
     file_raster |-> ""]

\* the entry of steps for one step of a group
Step(group, step, inputs, outputs, weights, st) ==
    [group |-> group, step |-> step, inputs |-> inputs, outputs |-> outputs,
     weights |-> weights, status |-> st]

UsersRunning == call.op = "setup_users" /\ status = "pending"

ThisGroup == call.groups[locals.g]

InputDb == _get_project_vars(disk, call.folder_project).pvars.vectors

RefRaster == _get_project_vars(disk, call.folder_project).pvars.refraster

\* the locals and the position after a step of the loop body that ended with
\* st and left the locals nl
AfterStep(st, nxt, nl) ==
    LET r == resume(st, nxt, locals.g, Len(call.groups))
    IN  /\ pc' = r.pc
        /\ locals' = IF st = "ok" THEN nl
                      ELSE IF r.g = locals.g THEN locals ELSE FreshLocals(r.g)
        /\ status' = IF st = "ok" THEN status ELSE st

users_master_check ==
    /\ UsersRunning /\ pc = "call"
    /\ \E st \in {master_check(disk, call.folder_project, call.groups, call.scenario)} :
          /\ status' = IF st # "ok" THEN st
                       ELSE IF Len(call.groups) = 0 THEN "ok" ELSE status
          /\ pc' = IF st # "ok" THEN "raised"
                   ELSE IF Len(call.groups) = 0 THEN "done" ELSE "vectors"
    /\ locals' = FreshLocals(1)
    /\ UNCHANGED <<now, disk, call, ret, reads, runs, steps>>

users_vectors ==
    /\ call.op = "setup_users" /\ pc = "vectors"
    /\ IF "vectors" \in DOMAIN ThisGroup.dc
       THEN \E r \in {_setup_users_vectors(disk, InputDb, ThisGroup.dc,
                          interm_folder(call.folder_project, call.scenario),
                          RefRaster)} :
               /\ disk' = r.disk
               /\ steps' = Append(steps, Step(ThisGroup.name, "vectors",
                                              layer_names(ThisGroup.dc.vectors),
                                              r.ret, <<>>, r.status))
               /\ AfterStep(r.status, "rasters",
                            [locals EXCEPT
                               !.ls_rasters = locals.ls_rasters \o r.ret,
                               !.ls_weights = locals.ls_weights
                                                \o _list_weights(ThisGroup.dc.vectors)])
       ELSE /\ pc' = "rasters"
            /\ UNCHANGED <<disk, steps, locals, status>>
    /\ UNCHANGED <<now, call, ret, reads, runs>>

users_rasters ==
    /\ call.op = "setup_users" /\ pc = "rasters"
    /\ IF "rasters" \in DOMAIN ThisGroup.dc
       THEN \E r \in {_setup_users_rasters(disk,
                          Join(Join(call.folder_project, "inputs"), "_sources"),
                          ThisGroup.dc,
                          disk[RefRaster].metadata.raster_projection,
                          disk[RefRaster].metadata.raster_geotransform,
                          interm_folder(call.folder_project, call.scenario))} :
               /\ disk' = r.disk
               /\ steps' = Append(steps, Step(ThisGroup.name, "rasters",
                                              layer_names(ThisGroup.dc.rasters),
                                              r.ret, <<>>, r.status))
               /\ AfterStep(r.status, "normalize",
                            [locals EXCEPT
                               !.ls_rasters = locals.ls_rasters \o r.ret,
                               !.ls_weights = locals.ls_weights
                                                \o _list_weights(ThisGroup.dc.rasters)])
       ELSE /\ pc' = "normalize"
            /\ UNCHANGED <<disk, steps, locals, status>>
    /\ UNCHANGED <<now, call, ret, reads, runs>>


users_normalize ==
    /\ call.op = "setup_users" /\ pc = "normalize"
    /\ \E r \in {util_normalize_rasters(disk, locals.ls_rasters, "fz", Num(0))} :
          /\ disk' = r.disk
          /\ reads' = reads \o r.reads
          /\ runs' = runs \o r.runs
          /\ steps' = Append(steps, Step(ThisGroup.name, "normalize",
                                         locals.ls_rasters, r.ret, <<>>, r.status))
          /\ AfterStep(r.status, after_normalize(r.ret),
                       [locals EXCEPT !.ls_normalized = r.ret])
    /\ UNCHANGED <<now, call, ret>>

users_algebra ==
    /\ call.op = "setup_users" /\ pc = "algebra"
    /\ \E r \in {_setup_users_algebra(disk, locals.ls_normalized, locals.ls_weights,
                     Join(interm_folder(call.folder_project, call.scenario),
                          ThisGroup.name \o "_wavg"))} :
          /\ disk' = r.disk
          /\ reads' = reads \o r.reads
          /\ steps' = Append(steps, Step(ThisGroup.name, "algebra",
                                         locals.ls_normalized,
                                         r.ret,
                                         locals.ls_weights, r.status))
          /\ AfterStep(r.status, "normalize_again",
                       [locals EXCEPT !.file_raster =
                                          IF r.status = "ok" THEN r.ret[1] ELSE ""])
    /\ UNCHANGED <<now, call, ret, runs>>

users_normalize_again ==
    /\ call.op = "setup_users" /\ pc = "normalize_again"
    /\ \E r \in {util_normalize_rasters(disk, <<locals.file_raster>>, "fz", Num(0))} :
          /\ disk' = r.disk
          /\ reads' = reads \o r.reads
          /\ runs' = runs \o r.runs
          /\ steps' = Append(steps, Step(ThisGroup.name, "normalize_again",
                                         <<locals.file_raster>>, r.ret, <<>>, r.status))
          /\ AfterStep(r.status, "fill", [locals EXCEPT !.ls_normalized = r.ret])
    /\ UNCHANGED <<now, call, ret>>

\* the last statement of the loop body, and the next group or the return;
\* ls_normalized[0] of an empty list raises IndexError
users_fill ==
    /\ call.op = "setup_users" /\ pc = "fill"
    /\ IF Len(locals.ls_normalized) = 0
       THEN /\ status' = ErrIndex
            /\ pc' = "raised"
            /\ UNCHANGED <<disk, steps, locals>>
       ELSE /\ LET dc == [INPUT |-> locals.ls_normalized[1],
                          BAND |-> 1,
                          FILL_VALUE |-> 0,
                          OUTPUT |-> Join(users_folder(call.folder_project,
                                                       call.scenario),
                                          ThisGroup.name)]
               IN  /\ disk' = fillnodata(disk, dc)
                   /\ steps' = Append(steps, Step(ThisGroup.name, "fill",
                                                  <<dc.INPUT>>, <<dc.OUTPUT>>,
                                                  <<>>, "ok"))
            /\ IF locals.g < Len(call.groups)
               THEN /\ pc' = "vectors"
                    /\ locals' = FreshLocals(locals.g + 1)
                    /\ UNCHANGED status
               ELSE /\ pc' = "done"
                    /\ status' = IF status = "pending" THEN "ok" ELSE status
                    /\ UNCHANGED locals
    /\ UNCHANGED <<now, call, ret, reads, runs>>

NextUsers ==
    \/ users_master_check
    \/ users_vectors
    \/ users_rasters
    \/ users_normalize
    \/ users_algebra
    \/ users_normalize_again
    \/ users_fill


(***************************************************************************)
(* Specification of one call of setup_users on a drawn project: one or two *)
(* groups of at most two layers each, and at most one thing wrong with the *)
(* project (a required path that is missing, a raster source that is       *)
(* missing, a vector layer whose field the database lacks).                *)
(***************************************************************************)
Project == "proj"

Scenario == "baseline"

GroupName(g) == "g" \o ToString(g)

VectorName(g, i) == GroupName(g) \o "v" \o ToString(i)

RasterName(g, i) == GroupName(g) \o "r" \o ToString(i)

\* the weight of a layer entry: no key, None, or a number
NoKey == [k |-> "nokey", n |-> 0, d |-> 0]

WeightEntries == {NoKey, PyNone, Num(2)}

\* the numbers of layers of the two lists of a group; -1 is a missing key
ListSizes == {s \in ((-1)..2) \X ((-1)..2) :
                (IF s[1] > 0 THEN s[1] ELSE 0) + (IF s[2] > 0 THEN s[2] ELSE 0) <= 2}

\* the drawn form of a group: the sizes of its lists and the weight entries
GroupForms ==
    UNION {{[s |-> s, wv |-> wv, wr |-> wr] :
              wv \in [1..s[1] -> WeightEntries], wr \in [1..s[2] -> WeightEntries]} :
           s \in ListSizes}

\* what is wrong with the project
NoFault == [kind |-> "none", g |-> 0, i |-> 0]

PathFaults ==
    {[kind |-> k, g |-> 0, i |-> 0] :
        k \in {"no_project", "no_vectors", "no_refraster", "no_intermediate"}}

\* the layers that a fault can hit
LayerFaults(forms) ==
    UNION {{[kind |-> "vectors", g |-> g, i |-> i] : i \in 1..forms[g].s[1]}
           \cup {[kind |-> "rasters", g |-> g, i |-> i] : i \in 1..forms[g].s[2]} :
           g \in 1..Len(forms)}

WithWeight(dc, w) == IF w = NoKey THEN dc ELSE dc @@ ("weight" :> w)

\* the entry of vector layer i of group g: the first layer of a list burns
\* the value 1, the second one its field "intensity"; a faulty layer names
\* a field that the database lacks
VectorEntry(g, i, w, fault) ==
    WithWeight(IF fault = [kind |-> "vectors", g |-> g, i |-> i]
               THEN [name |-> VectorName(g, i), field |-> "depth"]
               ELSE IF i = 1 THEN [name |-> VectorName(g, i)]
               ELSE [name |-> VectorName(g, i), field |-> "intensity"], w)

RasterEntry(g, i, w) == WithWeight([name |-> RasterName(g, i)], w)

\* the dict of group g
GroupDict(g, form, fault) ==
    (IF form.s[1] >= 0
     THEN "vectors" :> [i \in 1..form.s[1] |-> VectorEntry(g, i, form.wv[i], fault)]
     ELSE <<>>)
    @@
    (IF form.s[2] >= 0
     THEN "rasters" :> [i \in 1..form.s[2] |-> RasterEntry(g, i, form.wr[i])]
     ELSE <<>>)

BathymetryGrid == <<<<Num(3), Num(5)>>>>

SourceGrid(i) == IF i = 1 THEN <<<<Num(2), NoData>>>> ELSE <<<<Num(0), Num(4)>>>>

VectorLayer(i) ==
    [cover |-> IF i = 1 THEN <<<<1, 0>>>> ELSE <<<<1, 1>>>>,
     fields |-> [intensity |-> 3]]

LayerIds == (1..2) \X (1..2)

VectorsDb ==
    [kind |-> "gpkg",
     layers |-> [n \in {VectorName(x[1], x[2]) : x \in LayerIds} |->
                   VectorLayer((CHOOSE x \in LayerIds : VectorName(x[1], x[2]) = n)[2])]]

RasterOf(grid, name) == [data |-> grid, metadata |-> MetadataOf(name)]

SourcePath(g, i) == Join(Join(Join(Project, "inputs"), "_sources"), RasterName(g, i))

\* the disk of the project under a fault
ProjectDisk(fault) ==
    LET inputs == Join(Project, "inputs")
        folders == {Project, inputs, Join(inputs, "_sources"),
                    users_folder(Project, Scenario)}
                   \cup (IF fault.kind = "no_intermediate" THEN {}
                         ELSE {interm_folder(Project, Scenario)})
        db == IF fault.kind = "no_vectors" THEN {} ELSE {Join(inputs, "vectors.gpkg")}
        ref == IF fault.kind = "no_refraster" THEN {} ELSE {Join(inputs, "bathymetry")}
        ids == {x \in LayerIds : fault # [kind |-> "rasters", g |-> x[1], i |-> x[2]]}
        sources == {SourcePath(x[1], x[2]) : x \in ids}
    IN  IF fault.kind = "no_project" THEN <<>>
        ELSE [p \in folders \cup db \cup ref \cup sources |->
                IF p \in folders THEN Folder
                ELSE IF p \in db THEN VectorsDb
                ELSE IF p \in ref THEN RasterOf(BathymetryGrid, "bathymetry")
                ELSE RasterOf(SourceGrid((CHOOSE x \in ids : SourcePath(x[1], x[2]) = p)[2]),
                              "source")]

InitUsers ==
    \E n \in 1..2 :
        \E forms \in [1..n -> GroupForms] :
            \E fault \in {NoFault} \cup PathFaults \cup LayerFaults(forms) :
                /\ disk = ProjectDisk(fault)
                /\ call = [op |-> "setup_users",
                           folder_project |-> Project,
                           scenario |-> Scenario,
                           groups |-> [g \in 1..n |->
                                         [name |-> GroupName(g),
                                          dc |-> GroupDict(g, forms[g], fault)]]]
                /\ status = "pending"
                /\ ret = <<>>
                /\ reads = <<>>
                /\ runs = <<>>
                /\ pc = "call"
                /\ locals = <<>>
                /\ steps = <<>>
                /\ now = 0

SpecUsers == InitUsers /\ [][NextUsers]_vars

UsersDone == call.op = "setup_users" /\ pc \in {"done", "raised"}


(***************************************************************************)
(* Properties of setup_users (checked under SpecUsers).                    *)
(***************************************************************************)
\* the dict of the group called name
DictOf(name) == (CHOOSE gr \in {call.groups[i] : i \in 1..Len(call.groups)} :
                    gr.name = name).dc

\* the layer entries of a group dict: the vector layers, then the rasters
LayersOf(dc) ==
    (IF "vectors" \in DOMAIN dc THEN dc.vectors ELSE <<>>)
    \o (IF "rasters" \in DOMAIN dc THEN dc.rasters ELSE <<>>)

HasNoWeight(layer_dc) == "weight" \notin DOMAIN layer_dc

HasNoneWeight(layer_dc) == "weight" \in DOMAIN layer_dc /\ layer_dc.weight = PyNone

\* the weight the configuration states for a layer: 1 by default
StatedWeight(layer_dc) ==
    IF HasNoWeight(layer_dc) \/ HasNoneWeight(layer_dc) THEN 1 ELSE layer_dc.weight.n

StatedWeights(dc) == [i \in 1..Len(LayersOf(dc)) |-> StatedWeight(LayersOf(dc)[i])]

\* C11: the weights that setup_users collects for a group, and hands to the
\* weighted overlay, are 1 for a layer entry without a 'weight' key or with
\* the weight None, and the stated weight for every other entry.
C11_DefaultWeightIsOne ==
    /\ (call.op = "setup_users"
        /\ pc \in {"normalize", "algebra", "normalize_again", "fill"})
          => locals.ls_weights = StatedWeights(ThisGroup.dc)
    /\ \A k \in 1..Len(steps) :
          steps[k].step = "algebra"
              => steps[k].weights = StatedWeights(DictOf(steps[k].group))

\* an overlay was run for a group with a layer whose weight is None or
\* missing and a layer with a stated weight
C11_Witness ==
    \E k \in 1..Len(steps) :
        /\ steps[k].step = "algebra"
        /\ steps[k].status = "ok"
        /\ LET ls == LayersOf(DictOf(steps[k].group))
           IN  /\ \E i \in 1..Len(ls) : HasNoneWeight(ls[i]) \/ HasNoWeight(ls[i])
               /\ \E i \in 1..Len(ls) : ~HasNoneWeight(ls[i]) /\ ~HasNoWeight(ls[i])
                                        /\ steps[k].weights[i] = 2


\* the steps of the log that belong to the group called name, in order
RECURSIVE StepsOf(_, _)
StepsOf(log, name) ==
    IF log = <<>> THEN <<>>
    ELSE (IF Head(log).group = name THEN <<Head(log)>> ELSE <<>>)
         \o StepsOf(Tail(log), name)

IsPrefix(a, b) == Len(a) <= Len(b) /\ \A i \in 1..Len(a) : a[i] = b[i]

\* the resolution steps of a group dict
ResolveSteps(dc) ==
    (IF "vectors" \in DOMAIN dc THEN <<"vectors">> ELSE <<>>)
    \o (IF "rasters" \in DOMAIN dc THEN <<"rasters">> ELSE <<>>)

\* the pipeline as the claim words it, and the pipeline of the code, which
\* overlays and normalizes again only when the group has several layers
FullPipeline(dc) ==
    ResolveSteps(dc) \o <<"normalize", "algebra", "normalize_again", "fill">>

CodePipeline(dc) ==
    ResolveSteps(dc) \o <<"normalize">>
    \o (IF Len(LayersOf(dc)) > 1 THEN <<"algebra", "normalize_again">> ELSE <<>>)
    \o <<"fill">>

RECURSIVE Concat(_)
Concat(ss) == IF ss = <<>> THEN <<>> ELSE Head(ss) \o Concat(Tail(ss))

\* every step of the sequence sg of steps of one group started after the
\* step before it had ended well, works on what the steps before it wrote,
\* and what the steps wrote is on disk
Chained(sg) ==
    \A k \in 1..Len(sg) :
        /\ k > 1 => sg[k - 1].status = "ok"
        /\ sg[k].status = "ok" => \A i \in 1..Len(sg[k].outputs) :
                                     sg[k].outputs[i] \in DOMAIN disk
        /\ sg[k].step = "normalize"
              => sg[k].inputs = Concat([j \in 1..(k - 1) |-> sg[j].outputs])
        /\ sg[k].step \in {"algebra", "normalize_again"}
              => sg[k].inputs = sg[k - 1].outputs
        /\ sg[k].step = "fill" => sg[k].inputs = <<sg[k - 1].outputs[1]>>

StepNames(sg) == [k \in 1..Len(sg) |-> sg[k].step]

GroupNames == {call.groups[i].name : i \in 1..Len(call.groups)}

InOrder(Pipeline(_)) ==
    call.op = "setup_users" =>
        \A name \in GroupNames :
            LET sg == StepsOf(steps, name)
            IN  /\ IsPrefix(StepNames(sg), Pipeline(DictOf(name)))
                /\ Chained(sg)

\* C12 as stated: the steps of every group are, in this order, the
\* resolution of its layers, the normalization, the overlay, the
\* normalization of the overlay and the final raster, each step working on
\* the output of the one before.
C12_EveryGroupOverlaid == InOrder(FullPipeline)

\* C12, amended: the overlay and the second normalization belong to the
\* pipeline of the groups with more than one layer only; a group with one
\* layer goes from the normalization to the final raster.
C12_StepsInOrder == InOrder(CodePipeline)

\* a group of two layers went through its whole pipeline, and so did a
\* group of one layer
C12_Witness ==
    /\ call.op = "setup_users" /\ pc = "done" /\ status = "ok"
    /\ \E name \in GroupNames :
          /\ Len(LayersOf(DictOf(name))) = 2
          /\ StepNames(StepsOf(steps, name)) = CodePipeline(DictOf(name))
    /\ \E name \in GroupNames :
          /\ Len(LayersOf(DictOf(name))) = 1
          /\ StepNames(StepsOf(steps, name)) = CodePipeline(DictOf(name))


UsersFailed == call.op = "setup_users" /\ IsError

\* when the run has failed: it has left the function, the step that failed
\* is the last one of the log, and what the steps before it wrote is on disk
AbortedAtFailure ==
    UsersFailed =>
        /\ pc = "raised"
        /\ \A k \in 1..Len(steps) :
              /\ k < Len(steps) => steps[k].status = "ok"
              /\ steps[k].status = "ok" => \A i \in 1..Len(steps[k].outputs) :
                                              steps[k].outputs[i] \in DOMAIN disk

\* C13: a step that fails ends the run: the failed step is the last step
\* carried out, no step of that group or of a later group follows, nothing
\* is retried, and the files written so far stay on disk as they are.
C13_FailureAborts ==
    /\ []AbortedAtFailure
    /\ [][UsersFailed => UNCHANGED <<disk, steps, status, pc>>]_vars

\* the run failed in the second group, after the first group got its final
\* raster and the failing group its first intermediates
C13_Witness ==
    /\ UsersFailed
    /\ Len(call.groups) = 2
    /\ Len(steps) >= 3
    /\ \E k \in 1..Len(steps) :
          steps[k].step = "fill" /\ steps[k].group = call.groups[1].name
    /\ steps[Len(steps)].status # "ok"
    /\ steps[Len(steps)].group = call.groups[2].name
    /\ steps[Len(steps) - 1].group = call.groups[2].name


\* the paths that setup_users needs: those of the master check up, and the
\* source files of the raster layers of the groups
MasterPaths ==
    {call.folder_project,
     Join(Join(call.folder_project, "inputs"), "vectors.gpkg"),
     Join(Join(call.folder_project, "inputs"), "bathymetry"),
     interm_folder(call.folder_project, call.scenario)}

RasterSources ==
    UNION {IF "rasters" \in DOMAIN call.groups[g].dc
           THEN {Join(Join(Join(call.folder_project, "inputs"), "_sources"),
                      call.groups[g].dc.rasters[i].name) :
                    i \in 1..Len(call.groups[g].dc.rasters)}
           ELSE {} : g \in 1..Len(call.groups)}

\* the files on disk that the project did not hold before the call
WrittenFiles == DOMAIN disk \ DOMAIN ProjectDisk(NoFault)

\* every group has a list of layers, and no list is empty
NoEmptyGroup ==
    \A g \in 1..Len(call.groups) :
        /\ DOMAIN call.groups[g].dc # {}
        /\ \A key \in DOMAIN call.groups[g].dc : Len(call.groups[g].dc[key]) > 0

FailedEarly(paths) ==
    /\ \E p \in paths : status = ErrFileNotFound(p)
    /\ steps = <<>>
    /\ WrittenFiles = {}

\* C14: when a required input path is missing (the project folder, the
\* vector database, the reference raster, the intermediate folder or the
\* source file of a raster layer) in a configuration without an empty
\* group or list, the call raises FileNotFoundError before any step has run and
\* without having written a file.
C14_MissingPathFailsEarly ==
    (/\ UsersDone
     /\ NoEmptyGroup
     /\ \E p \in MasterPaths \cup RasterSources : p \notin DOMAIN disk)
        => FailedEarly(MasterPaths \cup RasterSources)

\* the part of C14 that the code keeps: the paths of the master check up
MasterPathsCheckedEarly ==
    (/\ call.op = "setup_users"
     /\ pc # "call"
     /\ \E p \in MasterPaths : p \notin DOMAIN disk)
        => FailedEarly(MasterPaths)


\* the groups without a 'vectors' and without a 'rasters' key
KeylessGroups ==
    {g \in 1..Len(call.groups) : DOMAIN call.groups[g].dc = {}}

MasterPathsPresent == \A p \in MasterPaths : p \in DOMAIN disk

\* C15: when a group of the configuration has neither a 'vectors' nor a
\* 'rasters' key, the call ends, wherever that group stands, without any
\* step of any group carried out and without a file written; the required
\* paths being present, the exception is the KeyError of the first such group.
C15_KeylessGroupFailsFirst ==
    (call.op = "setup_users" /\ pc # "call" /\ KeylessGroups # {}) =>
        /\ pc = "raised"
        /\ steps = <<>>
        /\ WrittenFiles = {}
        /\ MasterPathsPresent =>
              status = ErrNoKeys(call.groups[CHOOSE g \in KeylessGroups :
                                        \A h \in KeylessGroups : g <= h].name)

\* the second of two groups has no key, the first one has layers, and the
\* KeyError was raised
C15_Witness ==
    /\ call.op = "setup_users"
    /\ Len(call.groups) = 2
    /\ KeylessGroups = {2}
    /\ Len(LayersOf(call.groups[1].dc)) > 0
    /\ status = ErrNoKeys(call.groups[2].name)

\* the groups with a 'vectors' or a 'rasters' key whose list is empty
EmptyListGroups ==
    {g \in 1..Len(call.groups) :
        \E key \in DOMAIN call.groups[g].dc : Len(call.groups[g].dc[key]) = 0}

FinalRaster(g) ==
    Join(users_folder(call.folder_project, call.scenario), call.groups[g].name)

ValueErrors == {ErrEmptyVectors, ErrEmptyRasters, ErrSameSize, ErrField("depth")}

\* C16: a group with an empty 'vectors' or 'rasters' list never gets its
\* final raster, whatever its other list holds, and the call does not end
\* well; when the run, past the master check up, comes to that group, it
\* ends there with a ValueError.
C16_EmptyListFails ==
    call.op = "setup_users" =>
        \A g \in EmptyListGroups :
            /\ FinalRaster(g) \notin DOMAIN disk
            /\ \A k \in 1..Len(steps) :
                  steps[k].group = call.groups[g].name => steps[k].step # "fill"
            /\ UsersDone => /\ IsError
                            /\ (/\ locals.g = g
                                /\ master_check(disk, call.folder_project,
                                                call.groups, call.scenario) = "ok")
                                  => status \in ValueErrors

\* the run ended with the ValueError of the empty 'rasters' list of a group
\* whose vector layers had been resolved
C16_Witness ==
    /\ UsersDone
    /\ locals.g \in EmptyListGroups
    /\ status = ErrEmptyRasters
    /\ Len(steps) >= 2
    /\ steps[Len(steps) - 1].step = "vectors"
    /\ steps[Len(steps) - 1].group = steps[Len(steps)].group
    /\ steps[Len(steps) - 1].status = "ok"


(***************************************************************************)
(* setup_project (project.py).  Here a path is the sequence of its parts,  *)
(* and the disk holds folders only.                                        *)
(***************************************************************************)
ErrFileExists == "FileExistsError"

\* the path p and the folders above it, down to the root
WithParents(p) == {SubSeq(p, 1, n) : n \in 1..Len(p)}

\* a faulty variant of mkdir: a folder that exists is an error
mkdir_new_only(d, p) ==
    IF p \in DOMAIN d
    THEN [status |-> ErrFileExists, disk |-> d]
    ELSE [status |-> "ok",
          disk |-> [q \in DOMAIN d \cup WithParents(p) |->
                      IF q \in DOMAIN d THEN d[q] ELSE Folder]]

\* Path.mkdir(parents=True, exist_ok=True): the folder and the missing
\* folders above it are created; a folder that exists is left as it is, a
\* file of that name is an error
mkdir(d, p) ==
    IF p \in DOMAIN d /\ d[p] # Folder
    THEN [status |-> ErrFileExists, disk |-> d]
    ELSE [status |-> "ok",
          disk |-> [q \in DOMAIN d \cup WithParents(p) |->
                      IF q \in DOMAIN d THEN d[q] ELSE Folder]]

\* for d in ls: d.mkdir(parents=True, exist_ok=True), from index i on
RECURSIVE mkdir_all(_, _, _)
mkdir_all(d, ls, i) ==
    IF i > Len(ls) THEN [status |-> "ok", disk |-> d]
    ELSE LET r == mkdir(d, ls[i])
         IN  IF r.status # "ok" THEN r ELSE mkdir_all(r.disk, ls, i + 1)

\* os.listdir(p): the names of the entries of the folder p
listdir(d, p) ==
    {q[Len(p) + 1] : q \in {x \in DOMAIN d : /\ Len(x) = Len(p) + 1
                                             /\ SubSeq(x, 1, Len(p)) = p}}

\* the loop over os.listdir(d_output), for the entries of the set names
RECURSIVE mkdir_intermediate(_, _, _)
mkdir_intermediate(d, d_output, names) ==
    IF names = {} THEN [status |-> "ok", disk |-> d]
    ELSE LET x == CHOOSE y \in names : TRUE
             r == mkdir(d, d_output \o <<x, "intermediate">>)
         IN  IF r.status # "ok" THEN r
             ELSE mkdir_intermediate(r.disk, d_output, names \ {x})

\* the folders appended for the scenarios, from index i on
RECURSIVE scenario_folders(_, _, _)
scenario_folders(project, names, i) ==
    IF i > Len(names) THEN <<>>
    ELSE <<project \o <<"inputs", "users", names[i]>>,
           project \o <<"inputs", "risk", names[i]>>,
           project \o <<"outputs", names[i]>>>>
         \o scenario_folders(project, names, i + 1)

\* setup_project: the exception or "ok", the disk it leaves and the list it
\* returns; scenarios is [given, names], given being FALSE for None
setup_project(d, name, folder_base, scenarios) ==
    LET project == folder_base \o <<name>>
        d_output == project \o <<"outputs">>
        ls == <<project,
                project \o <<"inputs">>,
                project \o <<"inputs", "_sources">>,
                project \o <<"inputs", "benefit">>,
                project \o <<"inputs", "habitats">>,
                project \o <<"inputs", "risk", "baseline">>,
                project \o <<"inputs", "roi">>,
                project \o <<"inputs", "users", "baseline">>,
                d_output \o <<"baseline">>>>
              \o (IF scenarios.given
                  THEN scenario_folders(project, scenarios.names, 1)
                  ELSE <<>>)
        r1 == mkdir_all(d, ls, 1)
        r2 == mkdir_intermediate(r1.disk, d_output, listdir(r1.disk, d_output))
    IN  IF r1.status # "ok" THEN [status |-> r1.status, disk |-> r1.disk, ret |-> <<>>]
        ELSE IF r2.status # "ok"
        THEN [status |-> r2.status, disk |-> r2.disk, ret |-> <<>>]
        ELSE [status |-> "ok", disk |-> r2.disk,
              ret |-> ls]


(***************************************************************************)
(* Specification of any sequence of calls of setup_project on one base     *)
(* folder, which is empty at first.  steps is the set of the paths that    *)
(* the calls have returned so far, locals the set of the pairs of a        *)
(* project name and a scenario name that the calls were given.             *)
(***************************************************************************)
BaseFolder == <<"base">>

ProjectNames == {"narnia", "oz"}

ScenarioNames == {"baseline", "bau", "utopia"}

\* scenarios=None, or a list of at most two names, or the three names
ScenarioArgs ==
    {[given |-> FALSE, names |-> <<>>]}
    \cup {[given |-> TRUE, names |-> ns] :
            ns \in UNION {[1..n -> ScenarioNames] : n \in 0..2}
                   \cup {<<"baseline", "bau", "utopia">>}}

InitProject ==
    /\ disk = [p \in {BaseFolder} |-> Folder]
    /\ call = [op |-> "none"]
    /\ status = "pending"
    /\ ret = <<>>
    /\ reads = <<>>
    /\ runs = <<>>
    /\ pc = "call"
    /\ locals = {}
    /\ steps = {}
    /\ now = 0

setup_project_call ==
    \E name \in ProjectNames, scenarios \in ScenarioArgs :
        \E r \in {setup_project(disk, name, BaseFolder, scenarios)} :
            /\ call' = [op |-> "setup_project", name |-> name,
                        folder_base |-> BaseFolder, scenarios |-> scenarios]
            /\ status' = r.status
            /\ disk' = r.disk
            /\ ret' = r.ret
            /\ steps' = steps \cup {r.ret[i] : i \in 1..Len(r.ret)}
            /\ locals' = locals \cup {<<name, "baseline">>}
                           \cup {<<name, scenarios.names[i]>> :
                                   i \in 1..Len(scenarios.names)}
            /\ UNCHANGED <<now, reads, runs, pc>>

NextProject == setup_project_call

SpecProject == InitProject /\ [][NextProject]_vars

(***************************************************************************)
(* Properties of setup_project (checked under SpecProject).                *)
(***************************************************************************)
\* C17: every folder that a call of setup_project creates, the folders
\* outputs/{scenario}/intermediate included, is in the list it returns.
C17_ReturnsAllCreated ==
    [][\A p \in DOMAIN disk' \ DOMAIN disk : \E i \in 1..Len(ret') : ret'[i] = p]_vars

\* the folders of scenario s of the project called name
ScenarioFolders(name, s) ==
    {BaseFolder \o <<name, "inputs", "users", s>>,
     BaseFolder \o <<name, "inputs", "risk", s>>,
     BaseFolder \o <<name, "outputs", s>>,
     BaseFolder \o <<name, "outputs", s, "intermediate">>}

IsFolder(p) == p \in DOMAIN disk /\ disk[p] = Folder

\* after the calls so far: no call has failed, every path returned is a
\* folder, and the folders of every scenario given, and of 'baseline', exist
ProjectLayoutKept ==
    /\ status \in {"pending", "ok"}
    /\ \A p \in steps : IsFolder(p)
    /\ \A x \in locals : \A p \in ScenarioFolders(x[1], x[2]) : IsFolder(p)

\* C18: after any sequence of calls of setup_project on one base folder,
\* every path that a call returned is a folder, the folders inputs/users/s,
\* inputs/risk/s, outputs/s and outputs/s/intermediate exist for every
\* scenario s given and for 'baseline', no call raises, and no call removes
\* or replaces a folder.
C18_LayoutKeptAcrossCalls ==
    /\ []ProjectLayoutKept
    /\ [][\A p \in DOMAIN disk : p \in DOMAIN disk' /\ disk'[p] = disk[p]]_vars

\* a call was repeated on a project that had its folders already
C18_Witness ==
    /\ call.op = "setup_project"
    /\ status = "ok"
    /\ <<call.name, "bau">> \in locals
    /\ <<call.name, "utopia">> \in locals
    /\ ~call.scenarios.given
    /\ \E name \in ProjectNames : name # call.name /\ <<name, "baseline">> \in locals


(***************************************************************************)
(* conflict.py: setup_conflict_matrix and get_conflict_index.  The name of *)
(* a user raster is made of words joined by "_".                           *)
(***************************************************************************)
ErrNoneShape == "AttributeError: 'NoneType' object has no attribute 'shape'"
ErrKey(a) == "KeyError: '" \o a \o "'"

\* the names (stems) that a user raster of the model can have
UserNames == {"a", "a_b", "b_c", "c"}

\* "_".join(ws)
RECURSIVE JoinWords(_)
JoinWords(ws) ==
    IF Len(ws) = 1 THEN ws[1] ELSE ws[1] \o "_" \o JoinWords(Tail(ws))

\* name.split("_") for the name of a user raster
Words(name) ==
    CHOOSE ws \in UNION {[1..n -> {"a", "b", "c"}] : n \in 1..2} :
        JoinWords(ws) = name

\* folder_users.glob("*.tif"): the user rasters of the folder
glob_tif(d, folder) == {nm \in UserNames : Join(folder, nm) \in DOMAIN d}

\* the orders in which a listing can give the names of the set S
Orders(S) ==
    {o \in [1..Cardinality(S) -> S] : \A i, j \in DOMAIN o : i # j => o[i] # o[j]}

\* a faulty variant of the matrix: the diagonal is filled as well
tril_ones_diagonal(n, k) == [i \in 1..n |-> [j \in 1..n |-> IF j <= i THEN 1 ELSE 0]]

\* np.tril(np.ones((n, n), dtype=int), k): the entries with j <= i + k are 1
tril_ones(n, k) == [i \in 1..n |-> [j \in 1..n |-> IF j <= i + k THEN 1 ELSE 0]]

\* df.to_csv(fo, sep=";", index=True) with df.index.name = "users": a header
\* line, then one line per row that starts with the label of the row
to_csv(index, columns, matrix) ==
    [kind |-> "csv",
     header |-> <<"users">> \o columns,
     rows |-> [i \in 1..Len(index) |-> <<index[i]>> \o matrix[i]]]

\* pd.read_csv(f, sep=";", index_col=0)
read_csv(file) ==
    [index |-> [i \in 1..Len(file.rows) |-> file.rows[i][1]],
     columns |-> Tail(file.header),
     matrix |-> [i \in 1..Len(file.rows) |-> Tail(file.rows[i])]]

conflict_csv(folder_project, scenario) ==
    Join(users_folder(folder_project, scenario), "conflict.csv")

\* setup_conflict_matrix, ls_files being the listing of the user rasters
setup_conflict_matrix(d, folder_project, scenario, ls_files) ==
    LET pv == _get_project_vars(d, folder_project)
        items == ls_files
        n == Len(items)
        matrix == tril_ones(n, -1)
        fo == conflict_csv(folder_project, scenario)
    IN  IF pv.status # "ok" THEN [status |-> pv.status, disk |-> d, ret |-> <<>>]
        ELSE [status |-> "ok",
              disk |-> write_file(d, fo, to_csv(items, items, matrix)),
              ret |-> <<fo>>]

\* a faulty variant of the pair loop: j starts at i
pair_loop_from_i(items, i, j) ==
    LET RECURSIVE lp(_, _)
        lp(x, y) == IF x > Len(items) THEN <<>>
                    ELSE IF y > Len(items) THEN lp(x + 1, x + 1)
                    ELSE <<<<items[x], items[y]>>>> \o lp(x, y + 1)
    IN  lp(i, i)

\* for i in range(len(items)): for j in range(i + 1, len(items)): the pairs
\* (nm1, nm2) in the order of the loop, from (i, j) on
RECURSIVE pair_loop(_, _, _)
pair_loop(items, i, j) ==
    IF i > Len(items) THEN <<>>
    ELSE IF j > Len(items) THEN pair_loop(items, i + 1, i + 2)
    ELSE <<<<items[i], items[j]>>>> \o pair_loop(items, i, j + 1)


\* processing.run("native:rastercalc") with the product of the two layers:
\* a cell without data in one of them has no data
rastercalc_product(d, dc_parameters) ==
    LET r1 == d[dc_parameters.LAYERS[1]]
        r2 == d[dc_parameters.LAYERS[2]]
        out == [i \in 1..Len(r1.data) |->
                  [j \in 1..Len(r1.data[i]) |->
                      IF r1.data[i][j] = NoData \/ r2.data[i][j] = NoData
                      THEN NoData
                      ELSE FMul(r1.data[i][j], r2.data[i][j])]]
    IN  write_file(d, dc_parameters.OUTPUT,
                   [data |-> Strict(out), metadata |-> r1.metadata])

\* fo_sub = folder_output_sub / f"conflict_{pair}.tif", pair = f"{nm1}_{nm2}"
conflict_file(folder_output_sub, nm1, nm2) ==
    Join(folder_output_sub, "conflict_" \o nm1 \o "_" \o nm2)

\* the body of the pair loop for the pairs from index k on: the disk, the
\* list of the rasters written and the log of the computations
RECURSIVE conflicts_loop(_, _, _, _, _, _, _)
conflicts_loop(d, folder_users, folder_output_sub, pairs, k, ls_conflicts, log) ==
    IF k > Len(pairs)
    THEN [disk |-> d, ls_conflicts |-> ls_conflicts, steps |-> log]
    ELSE
        LET nm1 == pairs[k][1]
            nm2 == pairs[k][2]
            fo_sub == conflict_file(folder_output_sub, nm1, nm2)
            dc_parameters == [LAYERS |-> <<Join(folder_users, nm1),
                                           Join(folder_users, nm2)>>,
                              OUTPUT |-> fo_sub]
        IN  CHOOSE r \in
                {conflicts_loop(dn, folder_users, folder_output_sub, pairs, k + 1,
                                Append(ls_conflicts, fo_sub),
                                Append(log, Step(nm1 \o "_" \o nm2, "rastercalc",
                                                 dc_parameters.LAYERS, <<fo_sub>>,
                                                 <<>>, "ok"))) :
                    dn \in {rastercalc_product(d, dc_parameters)}} : TRUE

\* Path(f).stem.split("_") for a normalized pair raster f
stem_words(folder_output_sub, f) ==
    LET p == CHOOSE p \in UserNames \X UserNames :
                 f = fz_name(conflict_file(folder_output_sub, p[1], p[2]), "fz")
    IN  <<"conflict">> \o Words(p[1]) \o Words(p[2]) \o <<"fz">>

\* df.index.get_loc(a), for a label of the index
get_loc(index, a) == CHOOSE i \in 1..Len(index) : index[i] = a

\* get_lower_value: 0 on the diagonal, else the entry of the lower triangle;
\* a label that the index lacks is a KeyError
get_lower_value(df, a, b) ==
    IF a = b THEN [status |-> "ok", ret |-> 0]
    ELSE IF \A i \in 1..Len(df.index) : df.index[i] # a
    THEN [status |-> ErrKey(a), ret |-> 0]
    ELSE IF \A i \in 1..Len(df.index) : df.index[i] # b
    THEN [status |-> ErrKey(b), ret |-> 0]
    ELSE LET i == get_loc(df.index, a)
             j == get_loc(df.index, b)
         IN  [status |-> "ok",
              ret |-> IF i > j THEN df.matrix[i][j] ELSE df.matrix[j][i]]

\* the loop that sums the normalized pair rasters, from index k on
RECURSIVE wsum_loop(_, _, _, _, _, _, _, _, _)
wsum_loop(d, df, folder_output_sub, ls_conflicts_fz, k, weighted_sum, out_metadata, rd, log) ==
    IF k > Len(ls_conflicts_fz)
    THEN [status |-> "ok", weighted_sum |-> weighted_sum,
          out_metadata |-> out_metadata, reads |-> rd, steps |-> log]
    ELSE
        LET f == ls_conflicts_fz[k]
            nm == stem_words(folder_output_sub, f)
            a == nm[2]
            b == nm[3]
            w == get_lower_value(df, a, b)
            raster_dict == util_read_raster(d, f)
            first == weighted_sum = None
            acc == IF first THEN zeros_like(raster_dict.data) ELSE weighted_sum
            meta == IF first THEN raster_dict.metadata ELSE out_metadata
        IN  IF w.status # "ok"
            THEN [status |-> w.status, weighted_sum |-> weighted_sum,
                  out_metadata |-> out_metadata, reads |-> rd,
                  steps |-> Append(log, Step(a \o "_" \o b, "weight", <<f>>, <<>>,
                                             <<>>, w.status))]
            ELSE CHOOSE r \in
                    {wsum_loop(d, df, folder_output_sub, ls_conflicts_fz, k + 1,
                               acc2, meta, Append(rd, f),
                               Append(log, Step(a \o "_" \o b, "weight", <<f>>, <<>>,
                                                <<w.ret>>, "ok"))) :
                        acc2 \in {Strict(iadd(acc, array_times(raster_dict.data,
                                                              Num(w.ret))))}} : TRUE

\* get_conflict_index, ls_files being the listing of the user rasters.  Each
\* statement's result is bound once (x \in {e}), as the statement runs once.
get_conflict_index(d, folder_project, scenario, ls_files) ==
    LET pv == _get_project_vars(d, folder_project)
        folder_output == Join(pv.pvars.folder_outputs, scenario)
        folder_output_sub == Join(folder_output, "intermediate/conflict")
        folder_users == users_folder(folder_project, scenario)
        items == ls_files
        f_df == conflict_csv(folder_project, scenario)
        file_output == Join(folder_output_sub, "conflict_wsum")
        fo == Join(folder_output, scenario \o "_conflict")
        fail(st, dd, log) == [status |-> st, disk |-> dd, steps |-> log,
                              runs |-> <<>>, reads |-> <<>>, ret |-> <<>>]
        copy(nz, ws, n2) ==
            IF n2.status # "ok" THEN fail(n2.status, n2.disk, ws.steps)
            ELSE [status |-> "ok",
                  disk |-> write_file(n2.disk, fo, n2.disk[n2.ret[1]]),
                  steps |-> ws.steps,
                  runs |-> nz.runs \o n2.runs,
                  reads |-> nz.reads \o ws.reads \o n2.reads,
                  ret |-> <<fo>>]
        save(nz, ws) ==
            IF ws.status # "ok" THEN fail(ws.status, nz.disk, ws.steps)
            ELSE IF ws.weighted_sum = None
            THEN fail(ErrNoneShape, nz.disk, ws.steps)
            ELSE CHOOSE r \in
                    {copy(nz, ws, n2) :
                        n2 \in {_util_normalize_rasters(
                                    util_write_raster(nz.disk, ws.weighted_sum,
                                                      ws.out_metadata, file_output),
                                    <<file_output>>, "fz", Num(0))}} : TRUE
        weigh(cl, nz) ==
            IF nz.status # "ok" THEN fail(nz.status, nz.disk, cl.steps)
            ELSE IF ~is_file(nz.disk, f_df)
            THEN fail(ErrFileNotFound(f_df), nz.disk, cl.steps)
            ELSE CHOOSE r \in
                    {save(nz, ws) :
                        ws \in {wsum_loop(nz.disk, read_csv(nz.disk[f_df]),
                                          folder_output_sub, nz.ret, 1, None, None,
                                          <<>>, cl.steps)}} : TRUE
        normalize(cl) ==
            CHOOSE r \in
                {weigh(cl, nz) :
                    nz \in {_util_normalize_rasters(cl.disk, cl.ls_conflicts,
                                                    "fz", Num(0))}} : TRUE
    IN  IF pv.status # "ok" THEN fail(pv.status, d, <<>>)
        ELSE IF ~is_dir(d, Join(folder_output, "intermediate"))
        THEN fail(ErrFileNotFound(folder_output_sub), d, <<>>)
        ELSE CHOOSE r \in
                {normalize(cl) :
                    cl \in {conflicts_loop(write_file(d, folder_output_sub, Folder),
                                           folder_users, folder_output_sub,
                                           pair_loop(items, 1, 2), 1, <<>>, <<>>)}} :
                TRUE

(***************************************************************************)
(* Specification of the conflict functions on a drawn project: some user   *)
(* rasters in inputs/users/{scenario}, then calls of setup_conflict_matrix *)
(* and one call of get_conflict_index, each with the listing of the folder *)
(* in some order.  steps is the log of the last call.                      *)
(***************************************************************************)
UserGrid(nm) ==
    IF nm = "a" THEN <<<<Num(1), Num(2)>>>>
    ELSE IF nm = "a_b" THEN <<<<Num(0), Num(1)>>>>
    ELSE IF nm = "b_c" THEN <<<<NoData, Num(3)>>>>
    ELSE <<<<Num(2), Num(2)>>>>

\* the disk of the project with the user rasters of the set S
ConflictDisk(S, intermediate) ==
    LET inputs == Join(Project, "inputs")
        folders == {Project, inputs, users_folder(Project, Scenario)}
                   \cup (IF intermediate
                         THEN {interm_folder(Project, Scenario)} ELSE {})
        db == Join(inputs, "vectors.gpkg")
        ref == Join(inputs, "bathymetry")
        users == {Join(users_folder(Project, Scenario), nm) : nm \in S}
    IN  [p \in folders \cup {db, ref} \cup users |->
            IF p \in folders THEN Folder
            ELSE IF p = db THEN VectorsDb
            ELSE IF p = ref THEN RasterOf(BathymetryGrid, "bathymetry")
            ELSE RasterOf(UserGrid(CHOOSE nm \in S :
                                     p = Join(users_folder(Project, Scenario), nm)),
                          "users")]

InitConflict ==
    \E S \in SUBSET UserNames, intermediate \in BOOLEAN :
        /\ disk = ConflictDisk(S, intermediate)
        /\ call = [op |-> "none"]
        /\ status = "pending"
        /\ ret = <<>>
        /\ reads = <<>>
        /\ runs = <<>>
        /\ pc = "call"
        /\ locals = <<>>
        /\ steps = <<>>
        /\ now = 0

conflict_matrix_call ==
    /\ pc = "call"
    /\ \E ls_files \in Orders(glob_tif(disk, users_folder(Project, Scenario))) :
          \E r \in {setup_conflict_matrix(disk, Project, Scenario, ls_files)} :
              /\ call' = [op |-> "setup_conflict_matrix", folder_project |-> Project,
                          scenario |-> Scenario, ls_files |-> ls_files]
              /\ status' = r.status
              /\ disk' = r.disk
              /\ ret' = r.ret
    /\ steps' = <<>>
    /\ UNCHANGED <<now, reads, runs, pc, locals>>

conflict_index_call ==
    /\ pc = "call"
    /\ \E ls_files \in Orders(glob_tif(disk, users_folder(Project, Scenario))) :
          \E r \in {get_conflict_index(disk, Project, Scenario, ls_files)} :
              /\ call' = [op |-> "get_conflict_index", folder_project |-> Project,
                          scenario |-> Scenario, ls_files |-> ls_files]
              /\ status' = r.status
              /\ disk' = r.disk
              /\ ret' = r.ret
              /\ steps' = r.steps
              /\ runs' = r.runs
              /\ reads' = r.reads
    /\ pc' = "done"
    /\ UNCHANGED <<now, locals>>

NextConflict == conflict_matrix_call \/ conflict_index_call

SpecConflict == InitConflict /\ [][NextConflict]_vars

(***************************************************************************)
(* Properties of the conflict functions (checked under SpecConflict).      *)
(***************************************************************************)
\* the user rasters of the scenario
Users == glob_tif(disk, users_folder(Project, Scenario))

MatrixDone == call.op = "setup_conflict_matrix" /\ status = "ok"

ConflictCsv == disk[conflict_csv(Project, Scenario)]

\* C19: the file written by setup_conflict_matrix has one row and one
\* column for each of the n user rasters of the scenario, in one and the
\* same order of the names, and its entry (i, j) is 1 when i > j, else 0.
C19_LowerTriangleOfOnes ==
    MatrixDone =>
        LET n == Cardinality(Users)
            items == call.ls_files
        IN  /\ Len(ConflictCsv.rows) = n
            /\ ConflictCsv.header = <<"users">> \o items
            /\ {items[i] : i \in 1..n} = Users
            /\ \A i \in 1..n :
                  /\ ConflictCsv.rows[i][1] = items[i]
                  /\ Len(ConflictCsv.rows[i]) = n + 1
                  /\ \A j \in 1..n :
                        ConflictCsv.rows[i][j + 1] = (IF i > j THEN 1 ELSE 0)

\* the matrix of four users was written
C19_Witness == MatrixDone /\ Cardinality(Users) = 4 /\ ConflictCsv.rows[4][2] = 1

IndexCalled == call.op = "get_conflict_index"

\* the pairs of users whose overlap the call computed, in order
Computed ==
    LET rc == SelectSeq(steps, LAMBDA s : s.step = "rastercalc")
    IN  [k \in 1..Len(rc) |->
            <<CHOOSE nm \in Users : rc[k].inputs[1] = Join(users_folder(Project, Scenario), nm),
              CHOOSE nm \in Users : rc[k].inputs[2] = Join(users_folder(Project, Scenario), nm)>>]

\* C20: a call of get_conflict_index that gets to its pair loop computes
\* one overlap raster for each unordered pair of distinct users, n(n-1)/2
\* of them: none of a user with itself, none for a pair in both orders.
C20_OnePerUnorderedPair ==
    (IndexCalled /\ is_dir(disk, Join(Project, "outputs/" \o Scenario \o "/intermediate/conflict"))) =>
        LET n == Cardinality(Users)
        IN  /\ Len(Computed) * 2 = n * (n - 1)
            /\ \A k \in 1..Len(Computed) : Computed[k][1] # Computed[k][2]
            /\ \A k, l \in 1..Len(Computed) :
                  k # l => {Computed[k][1], Computed[k][2]}
                             # {Computed[l][1], Computed[l][2]}
            /\ \A x, y \in Users :
                  x # y => \E k \in 1..Len(Computed) :
                              {Computed[k][1], Computed[k][2]} = {x, y}

\* the six overlaps of four users were computed
C20_Witness == IndexCalled /\ Cardinality(Users) = 4 /\ Len(Computed) = 6

(***************************************************************************)
(* risk.py.  Here a path is the sequence of its parts, "/" being the root, *)
(* and the disk is keyed by absolute paths: every access resolves its path *)
(* against the working directory, as the operating system does.            *)
(***************************************************************************)
MaxClock == 3       \* the clock runs from 0 to MaxClock seconds

ErrNotFound == "FileNotFoundError"

\* the working directory of the process
Cwd == <<"/", "home">>

\* os.path.abspath(p)
abspath(p) == IF Len(p) > 0 /\ p[1] = "/" THEN p ELSE Cwd \o p

\* os.path.exists(p)
exists(d, p) == abspath(p) \in DOMAIN d

\* f"{folder}/{name}"
Sub(folder, name) == Append(folder, name)

\* os.makedirs(p, exist_ok=True)
makedirs(d, p) == mkdir(d, abspath(p))

\* os.mkdir(p): the folder above must exist, the path itself must not
os_mkdir(d, p) ==
    LET q == abspath(p)
        parent == SubSeq(q, 1, Len(q) - 1)
    IN  IF q \in DOMAIN d THEN [status |-> ErrFileExists, disk |-> d]
        ELSE IF ~(parent \in DOMAIN d /\ d[parent] = Folder)
        THEN [status |-> ErrNotFound, disk |-> d]
        ELSE [status |-> "ok", disk |-> write_file(d, q, Folder)]

\* a faulty variant of the timestamp: the seconds are left out
_get_timestamp_minutes(t) == "2026-01-01T0000"

\* _get_timestamp at second t of the clock: strftime("%Y-%m-%dT%H%M%S")
_get_timestamp(t) == "2026-01-01T00000" \o ToString(t)

\* folder_run = Path(output_folder) / f"{run_name}_{ts}"
folder_run_of(output_folder, run_name, ts) ==
    Sub(output_folder, run_name \o "_" \o ts)

\* the clock values and folders with which the loop of _make_run_folder can
\* leave through its else branch when it is entered at second t and nothing
\* else touches the disk: time.sleep(1) takes the clock one or two whole
\* seconds ahead
RECURSIVE run_folder_exits(_, _, _, _)
run_folder_exits(d, output_folder, run_name, t) ==
    IF t > MaxClock THEN {}
    ELSE LET folder_run == folder_run_of(output_folder, run_name, _get_timestamp(t))
         IN  IF exists(d, folder_run)
             THEN UNION {run_folder_exits(d, output_folder, run_name, t + dt) :
                            dt \in 1..2}
             ELSE {[now |-> t, folder_run |-> folder_run]}

(***************************************************************************)
(* Specification of _make_run_folder, statement by statement, called again *)
(* and again while the clock runs and another process makes run folders of *)
(* its own.  steps is the log of the folders returned so far.              *)
(***************************************************************************)
RunOutputFolders == {<<"out">>, <<"/", "home", "out">>, <<"/", "tmp">>}

RunNames == {"setup_stressors"}

\* the run folders that can exist when the model starts
OldRunFolders ==
    {abspath(folder_run_of(<<"out">>, rn, _get_timestamp(t))) :
        rn \in RunNames, t \in 0..(MaxClock - 1)}

FoldersDisk(folders) ==
    [p \in UNION {WithParents(q) : q \in folders} |-> Folder]

InitRunFolder ==
    \E old \in SUBSET OldRunFolders, tmp \in BOOLEAN :
        /\ disk = FoldersDisk({<<"/", "home", "out">>} \cup old
                         \cup (IF tmp THEN {<<"/", "tmp">>} ELSE {}))
        /\ call = [op |-> "none"]
        /\ status = "ok"
        /\ ret = <<>>
        /\ reads = <<>>
        /\ runs = <<>>
        /\ pc = "idle"
        /\ locals = <<>>
        /\ steps = <<>>
        /\ now = 0

\* a call of _make_run_folder; existed records the paths on the disk then
run_folder_call ==
    /\ pc = "idle"
    /\ now < MaxClock
    /\ \E output_folder \in RunOutputFolders, run_name \in RunNames :
          call' = [op |-> "_make_run_folder", output_folder |-> output_folder,
                   run_name |-> run_name, existed |-> DOMAIN disk]
    /\ status' = "pending"
    /\ pc' = "loop"
    /\ locals' = <<>>
    /\ ret' = <<>>
    /\ UNCHANGED <<now, disk, reads, runs, steps>>

\* ts = _get_timestamp(); folder_run = ...; if os.path.exists(folder_run)
run_folder_test ==
    /\ pc = "loop"
    /\ LET ts == _get_timestamp(now)
           folder_run == folder_run_of(call.output_folder, call.run_name, ts)
       IN  /\ locals' = [ts |-> ts, folder_run |-> folder_run]
           /\ pc' = IF exists(disk, folder_run) THEN "sleep" ELSE "mkdir"
    /\ UNCHANGED <<now, disk, call, status, ret, reads, runs, steps>>

\* time.sleep(1): the clock is one or two whole seconds ahead afterwards
run_folder_sleep ==
    /\ pc = "sleep"
    /\ \E dt \in 1..2 : now + dt <= MaxClock /\ now' = now + dt
    /\ pc' = "loop"
    /\ UNCHANGED <<disk, call, status, ret, reads, runs, locals, steps>>

\* os.mkdir(folder_run); break; return os.path.abspath(folder_run)
run_folder_mkdir ==
    /\ pc = "mkdir"
    /\ \E r \in {os_mkdir(disk, locals.folder_run)} :
          /\ disk' = r.disk
          /\ status' = r.status
          /\ ret' = IF r.status = "ok" THEN <<abspath(locals.folder_run)>> ELSE <<>>
          /\ steps' = IF r.status = "ok"
                      THEN Append(steps, abspath(locals.folder_run)) ELSE steps
    /\ pc' = "idle"
    /\ UNCHANGED <<now, call, reads, runs, locals>>

\* a second passes (not during time.sleep, which is its own passage of time)
tick ==
    /\ now < MaxClock
    /\ pc # "sleep"
    /\ now' = now + 1
    /\ UNCHANGED <<disk, call, status, ret, reads, runs, pc, locals, steps>>

\* another process, at work in the same folder, makes the run folder of this
\* second
other_run ==
    /\ now < MaxClock
    /\ \E run_name \in RunNames :
          \E r \in {os_mkdir(disk, folder_run_of(<<"out">>, run_name,
                                                 _get_timestamp(now)))} :
              /\ r.status = "ok"
              /\ disk' = r.disk
    /\ UNCHANGED <<now, call, status, ret, reads, runs, pc, locals, steps>>

run_folder_step == run_folder_test \/ run_folder_sleep \/ run_folder_mkdir

NextRunFolder == run_folder_call \/ run_folder_step \/ tick \/ other_run

SpecRunFolder == InitRunFolder /\ [][NextRunFolder]_vars

\* a call under way is not held up for ever
SpecRunFolderLive == SpecRunFolder /\ WF_vars(run_folder_step)

(***************************************************************************)
(* Claims on SpecRunFolderLive.                                            *)
(***************************************************************************)
RunFolderReturned == call.op = "_make_run_folder" /\ pc = "idle" /\ status = "ok"

\* the folder returned is the timestamped one, is on the disk, and was not
\* there when the call was made
ReturnedIsNew ==
    RunFolderReturned =>
        /\ Len(ret) = 1
        /\ ret[1] = abspath(folder_run_of(call.output_folder, call.run_name,
                                          locals.ts))
        /\ ret[1] \notin call.existed
        /\ ret[1] \in DOMAIN disk /\ disk[ret[1]] = Folder

\* no folder is returned twice
ReturnsDistinct == \A i, j \in 1..Len(steps) : i # j => steps[i] # steps[j]

\* an attempt waits exactly when its name is in use, a wait takes a second
\* or more, and the attempt whose name is free makes that folder and no other
AttemptsAsStated ==
    /\ (pc = "loop" /\ pc' # "loop") =>
          (pc' = "sleep" <=> exists(disk, locals'.folder_run))
          /\ (pc' = "mkdir" <=> ~exists(disk, locals'.folder_run))
    /\ (pc = "sleep" /\ pc' = "loop") => now' >= now + 1
    /\ (pc = "mkdir" /\ pc' = "idle") =>
          \/ status' = "ok" /\ DOMAIN disk' = DOMAIN disk \cup {ret'[1]}
          \/ status' # "ok" /\ disk' = disk /\ ret' = <<>>

\* C24: _make_run_folder never returns a folder that existed before the
\* call: it waits a second per attempt while the timestamped name is in use,
\* makes exactly the folder of the first free name and returns it, so that
\* calls with the same arguments return distinct folders, and every call ends
C24_RunFolderIsNew ==
    /\ []ReturnedIsNew
    /\ []ReturnsDistinct
    /\ [][AttemptsAsStated]_vars
    /\ (status = "pending") ~> (status # "pending")

\* two calls for the same folder have returned, the second after the clock
\* had moved on
C24_Witness ==
    /\ RunFolderReturned
    /\ Len(steps) = 2
    /\ SubSeq(steps[1], 1, Len(steps[1]) - 1) = SubSeq(steps[2], 1, Len(steps[2]) - 1)
    /\ steps[2] = ret[1]

(***************************************************************************)
(* setup_stressors (risk.py).                                              *)
(***************************************************************************)
ErrProcessing == "QgsProcessingException"

\* the disk without the file p
remove_file(d, p) == [x \in DOMAIN d \ {p} |-> d[x]]

\* os.remove(p)
os_remove(d, p) ==
    IF abspath(p) \in DOMAIN d /\ d[abspath(p)] # Folder
    THEN [status |-> "ok", disk |-> remove_file(d, abspath(p))]
    ELSE [status |-> ErrNotFound, disk |-> d]

\* shutil.copy(src, dst), dst being the name of a file
shutil_copy(d, src, dst) ==
    IF ~(abspath(src) \in DOMAIN d /\ d[abspath(src)] # Folder)
    THEN [status |-> ErrNotFound, disk |-> d]
    ELSE IF ~exists(d, SubSeq(abspath(dst), 1, Len(abspath(dst)) - 1))
    THEN [status |-> ErrNotFound, disk |-> d]
    ELSE [status |-> "ok", disk |-> write_file(d, abspath(dst), d[abspath(src)])]

\* whether the path names a raster of the disk
is_raster(d, p) == abspath(p) \in DOMAIN d /\ "data" \in DOMAIN d[abspath(p)]

\* risk.util_raster_blank: native:rastercalc with the expression
\* "{filename}@1" * 0; the blank raster is written to output_raster
risk_util_raster_blank(d, output_raster, input_raster) ==
    IF ~is_raster(d, input_raster)
    THEN [status |-> ErrProcessing, disk |-> d, ret |-> <<>>]
    ELSE [status |-> "ok",
          disk |-> util_raster_blank(d, abspath(output_raster), abspath(input_raster)),
          ret |-> output_raster]

\* util_layer_rasterize: gdal:rasterize_over_fixed_value with ADD False; the
\* cells that the features of the layer cover are set to burn_value
util_layer_rasterize(d, input_raster, input_db, input_layer, burn_value) ==
    IF \/ ~is_raster(d, input_raster)
       \/ abspath(input_db) \notin DOMAIN d
       \/ input_layer \notin DOMAIN d[abspath(input_db)].layers
    THEN [status |-> ErrProcessing, disk |-> d]
    ELSE LET old == d[abspath(input_raster)]
             cover == d[abspath(input_db)].layers[input_layer].cover
             new == [i \in 1..Len(old.data) |->
                       [j \in 1..Len(old.data[i]) |->
                           IF cover[i][j] = 1 THEN Num(burn_value)
                           ELSE old.data[i][j]]]
         IN  [status |-> "ok",
              disk |-> write_file(d, abspath(input_raster),
                                  [data |-> Strict(new), metadata |-> old.metadata])]

\* util_raster_reproject: gdal:warpreproject to EPSG:{dst_crs} at the
\* resolution dst_resolution, written to output_raster
util_raster_reproject(d, output_raster, input_raster, dst_resolution, dst_crs) ==
    IF ~is_raster(d, input_raster) THEN [status |-> ErrProcessing, disk |-> d]
    ELSE [status |-> "ok",
          disk |-> warpreproject(d, [INPUT |-> abspath(input_raster),
                                     OUTPUT |-> abspath(output_raster),
                                     TARGET_CRS |-> "EPSG:" \o dst_crs,
                                     TARGET_EXTENT |-> dst_resolution])]

\* for layer in groups[g]["layers"]: util_layer_rasterize(...), from layer i on
RECURSIVE stressor_layers_loop(_, _, _, _, _)
stressor_layers_loop(d, group_raster_src, input_db, layers, i) ==
    IF i > Len(layers) THEN [status |-> "ok", disk |-> d]
    ELSE CHOOSE res \in
            {IF r.status # "ok" THEN r
             ELSE stressor_layers_loop(r.disk, group_raster_src, input_db, layers, i + 1) :
                r \in {util_layer_rasterize(d, group_raster_src, input_db,
                                            layers[i], 1)}} : TRUE

\* the body of the loop over the groups, for one group g: copy of the
\* reference, rasterization of the layers, reprojection, removal of the copy
stressor_group(d, output_folder, input_db, g, reference_raster, resolution) ==
    LET group_raster_src == Sub(output_folder, g.name \o "_src.tif")
        group_raster_warped == Sub(output_folder, g.name \o ".tif")
        rasterized(c) ==
            IF c.status # "ok" THEN c
            ELSE stressor_layers_loop(c.disk, group_raster_src, input_db, g.layers, 1)
        warped(l) ==
            IF l.status # "ok" THEN l
            ELSE util_raster_reproject(l.disk, group_raster_warped, group_raster_src,
                                       resolution, "5641")
        removed(w) ==
            IF w.status # "ok" THEN w ELSE os_remove(w.disk, group_raster_src)
    IN  CHOOSE res \in
            {removed(w) :
                w \in {warped(l) :
                    l \in {rasterized(c) :
                        c \in {shutil_copy(d, reference_raster, group_raster_src)}}}} :
            TRUE

\* for g in groups: ..., from group i on
RECURSIVE stressor_groups_loop(_, _, _, _, _, _, _)
stressor_groups_loop(d, output_folder, input_db, groups, reference_raster, resolution, i) ==
    IF i > Len(groups) THEN [status |-> "ok", disk |-> d]
    ELSE CHOOSE res \in
            {IF r.status # "ok" THEN r
             ELSE stressor_groups_loop(r.disk, output_folder, input_db, groups,
                                       reference_raster, resolution, i + 1) :
                r \in {stressor_group(d, output_folder, input_db, groups[i],
                                      reference_raster, resolution)}} : TRUE

\* df.to_csv(f"{output_folder}/info_stressors.csv", sep=",", index=False)
info_stressors(output_folder, groups) ==
    [kind |-> "csv",
     header |-> <<"NAME", "PATH", "TYPE", "STRESSOR BUFFER (meters)">>,
     rows |-> [i \in 1..Len(groups) |->
                 [NAME |-> groups[i].name,
                  PATH |-> Sub(output_folder, groups[i].name \o ".tif"),
                  TYPE |-> "STRESSOR",
                  BUFFER |-> groups[i].buffer]]]

\* if is_blank is None: os.remove(reference_raster)
remove_blank(d, is_blank, reference_raster) ==
    IF is_blank = "None" THEN os_remove(d, reference_raster)
    ELSE [status |-> "ok", disk |-> d]

\* setup_stressors from the handling of the reference raster on,
\* output_folder being the folder of the run; is_blank is "True", "False" or
\* "None"
setup_stressors_run(d, output_folder, input_db, groups, reference_raster, is_blank, resolution) ==
    LET fail(r) == [status |-> r.status, disk |-> r.disk, ret |-> <<>>]
        finish(ref, l) ==
            IF l.status # "ok" THEN fail(l)
            ELSE CHOOSE res \in
                    {IF r.status # "ok" THEN fail(r)
                     ELSE [status |-> "ok", disk |-> r.disk, ret |-> output_folder] :
                        r \in {remove_blank(
                                  write_file(l.disk,
                                             abspath(Sub(output_folder,
                                                         "info_stressors.csv")),
                                             info_stressors(output_folder, groups)),
                                  is_blank, ref)}} : TRUE
        loop(b) ==
            IF b.status # "ok" THEN fail(b)
            ELSE CHOOSE res \in
                    {finish(b.ret, l) :
                        l \in {stressor_groups_loop(b.disk, output_folder, input_db,
                                                    groups, b.ret, resolution, 1)}} :
                    TRUE
    IN  CHOOSE res \in
            {loop(b) :
                b \in {IF is_blank = "True"
                       THEN [status |-> "ok", disk |-> d, ret |-> reference_raster]
                       ELSE risk_util_raster_blank(d, Sub(output_folder, "blank.tif"),
                                                   reference_raster)}} : TRUE

\* _make_run_folder when its loop leaves at x, one of run_folder_exits
_make_run_folder(d, x) ==
    LET r == os_mkdir(d, x.folder_run)
    IN  [status |-> r.status, disk |-> r.disk, ret |-> abspath(x.folder_run)]

(***************************************************************************)
(* Specification of setup_stressors: one call on a drawn disk, with drawn  *)
(* groups, is_blank and subfolder.                                         *)
(***************************************************************************)
InputFolder == <<"/", "home", "in">>

RiskInputDb == Sub(InputFolder, "pem.gpkg")

ReferenceRaster == Sub(InputFolder, "raster.tif")

\* the layers of the input database
RiskDb ==
    [kind |-> "gpkg", layers |-> [n \in {"l1", "l2"} |->
                                    VectorLayer(IF n = "l1" THEN 1 ELSE 2)]]

\* the lists of layers of a group; the layer l3 is not in the database
StressorLayers == {<<>>, <<"l1">>, <<"l1", "l2">>, <<"l3">>}

StressorGroup(name, layers) == [name |-> name, layers |-> layers, buffer |-> 10000]

\* the groups dictionaries, as the list of their items
StressorGroups ==
    {<<>>}
    \cup {<<StressorGroup("MINERACAO", l)>> : l \in StressorLayers}
    \cup {<<StressorGroup("MINERACAO", l1), StressorGroup("TURISMO", l2)>> :
            l1 \in StressorLayers, l2 \in StressorLayers}

\* the disk with the inputs; with_out: the output folder is there; with_old:
\* so is a run folder of second 0; with_ref: so is the reference raster
RiskDisk(with_out, with_old, with_ref) ==
    LET olds == IF with_old
                THEN {abspath(folder_run_of(<<"out">>, "setup_stressors",
                                            _get_timestamp(0)))}
                ELSE {}
        outs == IF with_out THEN {abspath(<<"out">>)} ELSE {}
        files == {RiskInputDb} \cup (IF with_ref THEN {ReferenceRaster} ELSE {})
        folders == FoldersDisk({InputFolder} \cup outs \cup olds)
    IN  [p \in DOMAIN folders \cup files |->
            IF p \in DOMAIN folders THEN Folder
            ELSE IF p = RiskInputDb THEN RiskDb
            ELSE RasterOf(BathymetryGrid, "raster")]

InitStressors ==
    \E with_out \in BOOLEAN, with_old \in BOOLEAN, with_ref \in BOOLEAN :
        /\ with_old => with_out
        /\ disk = RiskDisk(with_out, with_old, with_ref)
        /\ call = [op |-> "none"]
        /\ status = "pending"
        /\ ret = <<>>
        /\ reads = <<>>
        /\ runs = <<>>
        /\ pc = "call"
        /\ locals = <<>>
        /\ steps = <<>>
        /\ now = 0

\* the call of setup_stressors, from os.makedirs to the return
setup_stressors_call ==
    /\ pc = "call"
    /\ \E groups \in StressorGroups, is_blank \in {"True", "False", "None"},
          subfolder \in BOOLEAN :
          LET output_folder == <<"out">>
              m == makedirs(disk, output_folder)
              exits == IF subfolder
                       THEN run_folder_exits(m.disk, output_folder,
                                             "setup_stressors", now)
                       ELSE {[now |-> now, folder_run |-> output_folder]}
          IN  \E x \in exits :
              \E f \in {IF subfolder THEN _make_run_folder(m.disk, x)
                        ELSE [status |-> "ok", disk |-> m.disk, ret |-> output_folder]} :
              \E r \in {IF f.status # "ok"
                        THEN [status |-> f.status, disk |-> f.disk, ret |-> <<>>]
                        ELSE setup_stressors_run(f.disk, f.ret, RiskInputDb, groups,
                                                 ReferenceRaster, is_blank, 400)} :
                  /\ call' = [op |-> "setup_stressors", output_folder |-> output_folder,
                              groups |-> groups, is_blank |-> is_blank,
                              subfolder |-> subfolder, existed |-> DOMAIN disk]
                  /\ locals' = [output_folder |-> f.ret]
                  /\ now' = x.now
                  /\ status' = r.status
                  /\ disk' = r.disk
                  /\ ret' = r.ret
    /\ pc' = "done"
    /\ UNCHANGED <<reads, runs, steps>>

NextStressors == setup_stressors_call

SpecStressors == InitStressors /\ [][NextStressors]_vars

(***************************************************************************)
(* Claims on SpecStressors.                                                *)
(***************************************************************************)
StressorsReturned == call.op = "setup_stressors" /\ status = "ok"

\* the files that the call left in the folder it returned
LeftInFolder ==
    {p \in DOMAIN disk \ call.existed :
        /\ Len(p) = Len(abspath(ret)) + 1
        /\ SubSeq(p, 1, Len(abspath(ret))) = abspath(ret)}

GroupRasters == {Sub(abspath(ret), call.groups[i].name \o ".tif") :
                    i \in 1..Len(call.groups)}

SrcRasters == {Sub(abspath(ret), call.groups[i].name \o "_src.tif") :
                  i \in 1..Len(call.groups)}

\* the copies {group}_src.tif are removed by the time the call returns
SrcRastersRemoved == StressorsReturned => SrcRasters \cap DOMAIN disk = {}

\* C21: after setup_stressors returns, no intermediate raster remains in the
\* output folder: every {group}_src.tif is removed and, when is_blank is
\* False, so is the blank.tif made by the call; only the {group}.tif rasters
\* and info_stressors.csv remain
C21_NoIntermediateLeft ==
    StressorsReturned =>
        /\ SrcRasters \cap DOMAIN disk = {}
        /\ call.is_blank = "False" => Sub(abspath(ret), "blank.tif") \notin DOMAIN disk
        /\ LeftInFolder \subseteq
              GroupRasters \cup {Sub(abspath(ret), "info_stressors.csv")}

(***************************************************************************)
(* setup_habitats and util_split_features of risk.py, and setup_hra_model. *)
(* A layer of a database is [cover, features]: the cells its features      *)
(* cover and, for each feature, its code and the cells it covers.          *)
(***************************************************************************)
ErrConcat == "ValueError: No objects to concatenate"
ErrCrsKey(k) == "KeyError: '" \o k \o "'"

\* cell by cell, 1 where one of the covers of the list has 1
RECURSIVE cover_union(_, _)
cover_union(covers, blank) ==
    IF covers = <<>> THEN blank
    ELSE LET rest == cover_union(Tail(covers), blank)
             c == Head(covers)
         IN  [i \in 1..Len(c) |->
                [j \in 1..Len(c[i]) |-> IF c[i][j] = 1 THEN 1 ELSE rest[i][j]]]

\* gdf.query(f"{field_name} == '{name}'") for every name of the list, then
\* pd.concat: the features whose code is in the list
query_concat(features, names) ==
    SelectSeq(features, LAMBDA f : \E k \in 1..Len(names) : names[k] = f.code)

\* the layers written to split.gpkg for the groups from index i on, or the
\* exception of pd.concat for a group with no names
RECURSIVE split_loop(_, _, _, _)
split_loop(gdf, groups, i, dc_files) ==
    IF i > Len(groups) THEN [status |-> "ok", dc_files |-> dc_files]
    ELSE IF groups[i].names = <<>> THEN [status |-> ErrConcat, dc_files |-> dc_files]
    ELSE LET gdf_group == query_concat(gdf.features, groups[i].names)
             layer == [cover |-> cover_union([k \in 1..Len(gdf_group) |->
                                                 gdf_group[k].cover],
                                             [r \in 1..Len(gdf.cover) |->
                                                 [c \in 1..Len(gdf.cover[r]) |-> 0]]),
                       features |-> gdf_group]
         IN  split_loop(gdf, groups, i + 1, dc_files @@ (groups[i].name :> layer))

\* util_split_features, x being the exit of the loop of _make_run_folder;
\* split.gpkg is written only when there is a group to write
util_split_features(d, output_folder, input_db, input_layer, groups, x) ==
    LET m == makedirs(d, output_folder)
        f == _make_run_folder(m.disk, x)
        output_file == Sub(f.ret, "split.gpkg")
        fail(st, dd) == [status |-> st, disk |-> dd, ret |-> <<>>]
    IN  IF m.status # "ok" THEN fail(m.status, m.disk)
        ELSE IF f.status # "ok" THEN fail(f.status, f.disk)
        ELSE IF input_layer \notin DOMAIN f.disk[abspath(input_db)].layers
        THEN fail(ErrProcessing, f.disk)
        ELSE LET s == split_loop(f.disk[abspath(input_db)].layers[input_layer],
                                 groups, 1, <<>>)
             IN  IF s.status # "ok" THEN fail(s.status, f.disk)
                 ELSE [status |-> "ok",
                       disk |-> IF Len(groups) = 0 THEN f.disk
                                ELSE write_file(f.disk, abspath(output_file),
                                                [kind |-> "gpkg",
                                                 layers |-> s.dc_files]),
                       ret |-> output_file]

\* the body of the loop of setup_habitats, for one group g
habitat_group(d, output_folder, output_db, g, reference_raster, resolution) ==
    LET group_raster_src == Sub(output_folder, g.name \o "_src.tif")
        group_raster_warped == Sub(output_folder, g.name \o ".tif")
        rasterized(c) ==
            IF c.status # "ok" THEN c
            ELSE util_layer_rasterize(c.disk, group_raster_src, output_db, g.name, 1)
        warped(l) ==
            IF l.status # "ok" THEN l
            ELSE util_raster_reproject(l.disk, group_raster_warped, group_raster_src,
                                       resolution, "5641")
        removed(w) ==
            IF w.status # "ok" THEN w ELSE os_remove(w.disk, group_raster_src)
    IN  CHOOSE res \in
            {removed(w) :
                w \in {warped(l) :
                    l \in {rasterized(c) :
                        c \in {shutil_copy(d, reference_raster, group_raster_src)}}}} :
            TRUE

RECURSIVE habitat_groups_loop(_, _, _, _, _, _, _)
habitat_groups_loop(d, output_folder, output_db, groups, reference_raster, resolution, i) ==
    IF i > Len(groups) THEN [status |-> "ok", disk |-> d]
    ELSE CHOOSE res \in
            {IF r.status # "ok" THEN r
             ELSE habitat_groups_loop(r.disk, output_folder, output_db, groups,
                                      reference_raster, resolution, i + 1) :
                r \in {habitat_group(d, output_folder, output_db, groups[i],
                                     reference_raster, resolution)}} : TRUE

\* df.to_csv(f"{output_folder}/info_habitats.csv", sep=",", index=False)
info_habitats(output_folder, groups) ==
    [kind |-> "csv",
     header |-> <<"NAME", "PATH", "TYPE", "STRESSOR BUFFER (meters)">>,
     rows |-> [i \in 1..Len(groups) |->
                 [NAME |-> groups[i].name,
                  PATH |-> Sub(output_folder, groups[i].name \o ".tif"),
                  TYPE |-> "HABITAT",
                  BUFFER |-> ""]]]

\* shutil.rmtree(p): the folder p and all that it holds
rmtree(d, p) ==
    [x \in {y \in DOMAIN d : ~(Len(y) >= Len(abspath(p))
                               /\ SubSeq(y, 1, Len(abspath(p))) = abspath(p))} |-> d[x]]

\* risk.setup_habitats from util_split_features on, output_folder being the
\* folder of the run and x the exit of the loop of _make_run_folder in
\* util_split_features
risk_setup_habitats_run(d, output_folder, input_db, input_layer, groups, reference_raster, is_blank, resolution, x) ==
    LET fail(r) == [status |-> r.status, disk |-> r.disk, ret |-> <<>>]
        finish(s, ref, l) ==
            IF l.status # "ok" THEN fail(l)
            ELSE
              CHOOSE res \in
                {IF b.status # "ok" THEN fail(b)
                 ELSE CHOOSE res2 \in
                        {IF c.status # "ok" THEN fail(c)
                         ELSE [status |-> "ok",
                               disk |-> rmtree(c.disk, SubSeq(s.ret, 1, Len(s.ret) - 1)),
                               ret |-> output_folder] :
                            c \in {shutil_copy(b.disk, s.ret,
                                               Sub(output_folder, "habitats.gpkg"))}} :
                        TRUE :
                    b \in {IF is_blank = "True"
                           THEN [status |-> "ok",
                                 disk |-> write_file(l.disk,
                                             abspath(Sub(output_folder,
                                                         "info_habitats.csv")),
                                             info_habitats(output_folder, groups))]
                           ELSE os_remove(
                                   write_file(l.disk,
                                              abspath(Sub(output_folder,
                                                          "info_habitats.csv")),
                                              info_habitats(output_folder, groups)),
                                   ref)}} : TRUE
        loop(s, b) ==
            IF b.status # "ok" THEN fail(b)
            ELSE CHOOSE res \in
                    {finish(s, b.ret, l) :
                        l \in {habitat_groups_loop(b.disk, output_folder, s.ret, groups,
                                                   b.ret, resolution, 1)}} : TRUE
        blank(s) ==
            IF s.status # "ok" THEN fail(s)
            ELSE CHOOSE res \in
                    {loop(s, b) :
                        b \in {IF is_blank = "True"
                               THEN [status |-> "ok", disk |-> s.disk,
                                     ret |-> reference_raster]
                               ELSE risk_util_raster_blank(
                                       s.disk, Sub(output_folder, "blank.tif"),
                                       reference_raster)}} : TRUE
    IN  CHOOSE res \in
            {blank(s) :
                s \in {util_split_features(d, output_folder, input_db, input_layer,
                                           groups, x)}} : TRUE

\* the table CRS_OPS
CRS_OPS == [k \in {"5641"} |-> "+proj=pipeline +step +proj=unitconvert"]

\* processing.run("native:reprojectlayer", dc_params)
reprojectlayer(d, dc_params) ==
    IF dc_params.LAYER \notin DOMAIN d[abspath(dc_params.INPUT)].layers
    THEN [status |-> ErrProcessing, disk |-> d]
    ELSE [status |-> "ok",
          disk |-> write_file(d, abspath(dc_params.OUTPUT),
                              [kind |-> "shp", crs |-> dc_params.TARGET_CRS,
                               layer |-> d[abspath(dc_params.INPUT)].layers[
                                             dc_params.LAYER]])]

\* pd.read_csv of the two tables, pd.concat, to_csv
info_table(d, table_h, table_s) ==
    [kind |-> "csv",
     header |-> d[abspath(table_h)].header,
     rows |-> d[abspath(table_h)].rows \o d[abspath(table_s)].rows]

\* INVEST_JSON with its placeholders replaced
model_json(aoi_file, info_file, resolution, suffix, criteria_file, output_folder) ==
    [kind |-> "json", aoi_vector_path |-> aoi_file, info_table_path |-> info_file,
     resolution |-> resolution, results_suffix |-> suffix,
     criteria_table_path |-> criteria_file, workspace_dir |-> output_folder]

\* setup_hra_model; x is the exit of the loop of _make_run_folder for the
\* folder of the run, xs that of util_split_features in setup_habitats
setup_hra_model(d, a, x, xs) ==
    LET fail(r) == [status |-> r.status, disk |-> r.disk, ret |-> <<>>]
        m == makedirs(d, a.output_folder)
        f == _make_run_folder(m.disk, x)
        output_folder == f.ret
        model_reference_raster == Sub(output_folder, "blank.tif")
        aoi_file == Sub(output_folder, "aoi.shp")
        criteria_file == Sub(output_folder, "criteria.csv")
        info_file == Sub(output_folder, "info.csv")
        tables(c, habitat_folder, stressor_folder) ==
            IF c.status # "ok" THEN fail(c)
            ELSE [status |-> "ok",
                  disk |-> write_file(
                              write_file(c.disk, abspath(info_file),
                                         info_table(c.disk,
                                                    Sub(habitat_folder,
                                                        "info_habitats.csv"),
                                                    Sub(stressor_folder,
                                                        "info_stressors.csv"))),
                              abspath(Sub(output_folder, "model.json")),
                              model_json(aoi_file, info_file, a.resolution, a.suffix,
                                         criteria_file, output_folder)),
                  ret |-> output_folder]
        criteria(h, s) ==
            IF s.status # "ok" THEN fail(s)
            ELSE CHOOSE res \in
                    {tables(c, h.ret, s.ret) :
                        c \in {shutil_copy(s.disk, a.criteria_table, criteria_file)}} :
                    TRUE
        stressors(h) ==
            IF h.status # "ok" THEN fail(h)
            ELSE CHOOSE res \in
                    {criteria(h, s) :
                        s \in {IF makedirs(h.disk, Sub(output_folder, "stressors")).status
                                  # "ok"
                               THEN fail(makedirs(h.disk, Sub(output_folder, "stressors")))
                               ELSE setup_stressors_run(
                                       makedirs(h.disk,
                                                Sub(output_folder, "stressors")).disk,
                                       Sub(output_folder, "stressors"), a.input_db,
                                       a.stressor_groups, model_reference_raster,
                                       "True", a.resolution)}} : TRUE
        habitats(b) ==
            IF b.status # "ok" THEN fail(b)
            ELSE CHOOSE res \in
                    {stressors(h) :
                        h \in {risk_setup_habitats_run(
                                  makedirs(b.disk, Sub(output_folder, "habitats")).disk,
                                  Sub(output_folder, "habitats"), a.input_db,
                                  a.habitat_layer, a.habitat_groups,
                                  model_reference_raster, "True", a.resolution, xs)}} :
                    TRUE
        blank(r) ==
            IF r.status # "ok" THEN fail(r)
            ELSE CHOOSE res \in
                    {habitats(b) :
                        b \in {risk_util_raster_blank(r.disk, model_reference_raster,
                                                      a.reference_raster)}} : TRUE
    IN  IF m.status # "ok" THEN fail(m)
        ELSE IF f.status # "ok" THEN fail(f)
        ELSE IF a.dst_crs \notin DOMAIN CRS_OPS
        THEN [status |-> ErrCrsKey(a.dst_crs), disk |-> f.disk, ret |-> <<>>]
        ELSE CHOOSE res \in
                {blank(r) :
                    r \in {reprojectlayer(f.disk,
                                          [INPUT |-> a.input_db, LAYER |-> a.aoi_layer,
                                           TARGET_CRS |-> "EPSG:" \o a.dst_crs,
                                           OPERATION |-> CRS_OPS[a.dst_crs],
                                           OUTPUT |-> aoi_file])}} : TRUE

(***************************************************************************)
(* Specification of setup_hra_model: one call on a drawn disk with drawn   *)
(* groups and target CRS.                                                  *)
(***************************************************************************)
CriteriaTable == Sub(InputFolder, "criteria.csv")

HabitatFeatures ==
    <<[code |-> "MB3", cover |-> <<<<1, 0>>>>],
      [code |-> "MD3", cover |-> <<<<0, 1>>>>],
      [code |-> "MC3", cover |-> <<<<0, 0>>>>]>>

\* the input database: the layer of the area of interest, the layer of the
\* habitats and the layers of the stressors
HraDb ==
    [kind |-> "gpkg",
     layers |-> [n \in {"sul", "habitats", "l1", "l2"} |->
                   IF n = "habitats"
                   THEN [cover |-> <<<<1, 1>>>>, features |-> HabitatFeatures]
                   ELSE [cover |-> IF n = "l1" THEN <<<<1, 0>>>> ELSE <<<<1, 1>>>>,
                         features |-> <<>>]]]

HabitatGroup(name, names) == [name |-> name, names |-> names]

\* the habitat_groups dictionaries, as the list of their items
HabitatGroups ==
    {<<>>,
     <<HabitatGroup("MB3_MC3", <<"MB3", "MC3">>)>>,
     <<HabitatGroup("MB3_MC3", <<"MB3", "MC3">>), HabitatGroup("MD3", <<"MD3">>)>>,
     <<HabitatGroup("MD3", <<>>)>>}

HraDisk(with_old, with_criteria) ==
    LET olds == IF with_old
                THEN {abspath(folder_run_of(<<"out">>, "setup_hra_model",
                                            _get_timestamp(0)))}
                ELSE {}
        files == {RiskInputDb, ReferenceRaster}
                 \cup (IF with_criteria THEN {CriteriaTable} ELSE {})
        folders == FoldersDisk({InputFolder} \cup olds)
    IN  [p \in DOMAIN folders \cup files |->
            IF p \in DOMAIN folders THEN Folder
            ELSE IF p = RiskInputDb THEN HraDb
            ELSE IF p = CriteriaTable
            THEN [kind |-> "csv", header |-> <<"HABITAT NAME">>, rows |-> <<>>]
            ELSE RasterOf(BathymetryGrid, "raster")]

InitHra ==
    \E with_old \in BOOLEAN, with_criteria \in BOOLEAN :
        /\ disk = HraDisk(with_old, with_criteria)
        /\ call = [op |-> "none"]
        /\ status = "pending"
        /\ ret = <<>>
        /\ reads = <<>>
        /\ runs = <<>>
        /\ pc = "call"
        /\ locals = <<>>
        /\ steps = <<>>
        /\ now = 0

\* the call of setup_hra_model, from os.makedirs to the return
setup_hra_model_call ==
    /\ pc = "call"
    /\ \E habitat_groups \in HabitatGroups, stressor_groups \in StressorGroups,
          dst_crs \in {"5641", "4326"} :
          LET a == [output_folder |-> <<"out">>, criteria_table |-> CriteriaTable,
                    input_db |-> RiskInputDb, reference_raster |-> ReferenceRaster,
                    resolution |-> 1000, aoi_layer |-> "sul",
                    habitat_layer |-> "habitats", habitat_field |-> "code",
                    habitat_groups |-> habitat_groups,
                    stressor_groups |-> stressor_groups,
                    dst_crs |-> dst_crs, suffix |-> ""]
              m == makedirs(disk, a.output_folder)
          IN  \E x \in run_folder_exits(m.disk, a.output_folder, "setup_hra_model", now) :
              \E xs \in run_folder_exits(m.disk,
                                         Sub(abspath(x.folder_run), "habitats"),
                                         "util_split_features", x.now) :
              \E r \in {setup_hra_model(disk, a, x, xs)} :
                  /\ call' = [op |-> "setup_hra_model", args |-> a,
                              existed |-> DOMAIN disk]
                  /\ now' = xs.now
                  /\ status' = r.status
                  /\ disk' = r.disk
                  /\ ret' = r.ret
    /\ pc' = "done"
    /\ UNCHANGED <<reads, runs, locals, steps>>

NextHra == setup_hra_model_call

SpecHra == InitHra /\ [][NextHra]_vars

(***************************************************************************)
(* Claims on SpecHra.                                                      *)
(***************************************************************************)
HraReturned == call.op = "setup_hra_model" /\ status = "ok"

HraOutputs(blank_name) ==
    {Sub(Sub(ret, "habitats"), call.args.habitat_groups[i].name \o ".tif") :
        i \in 1..Len(call.args.habitat_groups)}
    \cup {Sub(Sub(ret, "stressors"), call.args.stressor_groups[i].name \o ".tif") :
            i \in 1..Len(call.args.stressor_groups)}
    \cup {Sub(ret, n) : n \in {"criteria.csv", "info.csv", "model.json", blank_name}}

\* what the code does leave: the same files, the blank raster being blank.tif
HraOutputsWithBlankTif == HraReturned => HraOutputs("blank.tif") \subseteq DOMAIN disk

\* C22: after setup_hra_model returns folder F, F holds habitats/{g}.tif for
\* every habitat group, stressors/{g}.tif for every stressor group, and
\* criteria.csv, info.csv, model.json and reference_raster_blank.tif
C22_HraFolderContents ==
    HraReturned => HraOutputs("reference_raster_blank.tif") \subseteq DOMAIN disk

(***************************************************************************)
(* Further claims on SpecAlgebra.                                          *)
(***************************************************************************)
AlgebraWritten == AlgebraDone /\ status = "ok"

OutMetadata == disk[call.file_output].metadata

FirstMetadata == disk[call.ls_rasters[1]].metadata

\* whenever a raster is written it has the shape and the metadata of the
\* first layer
OutputFollowsFirstLayer ==
    AlgebraWritten =>
        /\ Shape(OutGrid) = Shape(LayerGrid(1))
        /\ OutMetadata.raster_projection = FirstMetadata.raster_projection
        /\ OutMetadata.raster_geotransform = FirstMetadata.raster_geotransform

\* C23: the raster written by _setup_users_algebra has the same shape as the
\* inputs and carries the projection and geotransform of the first layer of
\* the list, whatever the metadata of the other layers
C23_ShapeAndMetadataOfInputs ==
    AlgebraWritten =>
        /\ \A i \in 1..NLayers : Shape(OutGrid) = Shape(LayerGrid(i))
        /\ OutMetadata.raster_projection = FirstMetadata.raster_projection
        /\ OutMetadata.raster_geotransform = FirstMetadata.raster_geotransform

(***************************************************************************)
(* Further claims on SpecUsers.                                            *)
(***************************************************************************)
\* the normalized raster of a layer entry of the configuration
NormalizedRasterOf(layer_dc) ==
    fz_name(Join(interm_folder(call.folder_project, call.scenario), layer_dc.name),
            "fz")

\* C25: for every group that gets as far as the weighted overlay, the raster
\* list and the weight list handed to _setup_users_algebra have the same
\* length, and position i of the weight list is the configured weight of the
\* layer at position i of the raster list (vector layers first, then raster
\* layers); the length-mismatch ValueError is never raised from setup_users
C25_WeightsAlignedWithRasters ==
    call.op = "setup_users" =>
        /\ status # ErrSameSize
        /\ \A k \in 1..Len(steps) :
              steps[k].step = "algebra" =>
                  LET ls == LayersOf(DictOf(steps[k].group))
                  IN  /\ Len(steps[k].inputs) = Len(ls)
                      /\ Len(steps[k].weights) = Len(ls)
                      /\ steps[k].status # ErrSameSize
                      /\ \A i \in 1..Len(ls) :
                            /\ steps[k].inputs[i] = NormalizedRasterOf(ls[i])
                            /\ steps[k].weights[i] = StatedWeight(ls[i])

\* an overlay was run for a group with a vector layer and a raster layer of
\* different weights
C25_Witness ==
    \E k \in 1..Len(steps) :
        /\ steps[k].step = "algebra"
        /\ steps[k].status = "ok"
        /\ LET dc == DictOf(steps[k].group)
           IN  /\ DOMAIN dc = {"vectors", "rasters"}
               /\ Len(dc.vectors) = 1 /\ Len(dc.rasters) = 1
               /\ steps[k].weights[1] # steps[k].weights[2]

(***************************************************************************)
(* Specification of setup_users on a project without faults, one group,    *)
(* the weights of the layers being missing, None, 0 or 2.                  *)
(***************************************************************************)
WeightEntriesWithZero == WeightEntries \cup {Num(0)}

GroupFormsWithZero ==
    UNION {{[s |-> s, wv |-> wv, wr |-> wr] :
              wv \in [1..s[1] -> WeightEntriesWithZero],
              wr \in [1..s[2] -> WeightEntriesWithZero]} :
           s \in ListSizes}

InitUsersWeights ==
    \E form \in GroupFormsWithZero :
        /\ disk = ProjectDisk(NoFault)
        /\ call = [op |-> "setup_users",
                   folder_project |-> Project,
                   scenario |-> Scenario,
                   groups |-> <<[name |-> GroupName(1),
                                 dc |-> GroupDict(1, form, NoFault)]>>]
        /\ status = "pending"
        /\ ret = <<>>
        /\ reads = <<>>
        /\ runs = <<>>
        /\ pc = "call"
        /\ locals = <<>>
        /\ steps = <<>>
        /\ now = 0

SpecUsersWeights == InitUsersWeights /\ [][NextUsers]_vars

(***************************************************************************)
(* Claims on SpecUsersWeights.                                             *)
(***************************************************************************)
\* a layer entry without its weight
WithoutWeight(layer_dc) == [k \in DOMAIN layer_dc \ {"weight"} |-> layer_dc[k]]

\* a group dict without the weights of its layers
WithoutWeights(dc) ==
    [key \in DOMAIN dc |-> [i \in 1..Len(dc[key]) |-> WithoutWeight(dc[key][i])]]

\* the grid with 0 in its no-data cells
Filled(data) ==
    [i \in 1..Len(data) |->
        [j \in 1..Len(data[i]) |-> IF data[i][j] = NoData THEN Num(0) ELSE data[i][j]]]

\* the no-data-filled normalization of the single layer of a group dict, as
\* the configuration without weights gives it
FilledNormalization(dc) ==
    LET interm == interm_folder(call.folder_project, call.scenario)
        r == IF "vectors" \in DOMAIN dc /\ Len(dc.vectors) = 1
             THEN _setup_users_vectors(disk, InputDb, WithoutWeights(dc), interm,
                                       RefRaster)
             ELSE _setup_users_rasters(disk,
                     Join(Join(call.folder_project, "inputs"), "_sources"),
                     WithoutWeights(dc),
                     disk[RefRaster].metadata.raster_projection,
                     disk[RefRaster].metadata.raster_geotransform, interm)
        n == util_normalize_rasters(r.disk, r.ret, "fz", Num(0))
    IN  Filled(n.disk[n.ret[1]].data)

SingleLayerGroups ==
    {g \in 1..Len(call.groups) : Len(LayersOf(call.groups[g].dc)) = 1}

\* C26: for a group with exactly one layer, setup_users skips the weighted
\* overlay and the second normalization: the final {group}.tif is the
\* no-data-filled normalization of that single layer, whatever the weight of
\* the layer (0 included)
C26_SingleLayerSkipsOverlay ==
    (call.op = "setup_users" /\ pc = "done" /\ status = "ok") =>
        \A g \in SingleLayerGroups :
            /\ \A k \in 1..Len(steps) :
                  steps[k].group = call.groups[g].name
                      => steps[k].step \notin {"algebra", "normalize_again"}
            /\ disk[FinalRaster(g)].data = FilledNormalization(call.groups[g].dc)

\* the call has ended well for a group of a single raster layer of weight 0
\* whose normalization has a no-data cell
C26_Witness ==
    /\ call.op = "setup_users" /\ pc = "done" /\ status = "ok"
    /\ SingleLayerGroups = {1}
    /\ LET layer_dc == LayersOf(call.groups[1].dc)[1]
       IN  /\ "weight" \in DOMAIN layer_dc /\ layer_dc.weight = Num(0)
           /\ \E i \in 1..Len(disk[NormalizedRasterOf(layer_dc)].data) :
                 \E j \in 1..Len(disk[NormalizedRasterOf(layer_dc)].data[i]) :
                     disk[NormalizedRasterOf(layer_dc)].data[i][j] = NoData

(***************************************************************************)
(* The weights of the pair rasters (checked under SpecConflict).           *)
(***************************************************************************)
\* the steps of the weighted sum, in order
Weighted == SelectSeq(steps, LAMBDA s : s.step = "weight")

\* the entry of the lower triangle of the conflict matrix for users x and y
LowerEntry(x, y) ==
    LET df == read_csv(ConflictCsv)
        i == get_loc(df.index, x)
        j == get_loc(df.index, y)
    IN  IF i > j THEN df.matrix[i][j] ELSE df.matrix[j][i]

\* the raster of the k-th weight is the normalized raster of the k-th pair
\* and its weight is the entry of the matrix for that pair
WeightOfPair(k) ==
    /\ Weighted[k].inputs
         = <<fz_name(conflict_file(Join(Project, "outputs/" \o Scenario
                                                   \o "/intermediate/conflict"),
                                   Computed[k][1], Computed[k][2]), "fz")>>
    /\ Weighted[k].status = "ok"
    /\ Weighted[k].weights = <<LowerEntry(Computed[k][1], Computed[k][2])>>

\* the same for the pairs of names without an underscore
WeightOfPlainPairs ==
    IndexCalled =>
        \A k \in 1..Len(Weighted) :
            (Len(Words(Computed[k][1])) = 1 /\ Len(Words(Computed[k][2])) = 1)
                => WeightOfPair(k)

\* a pair of plain names was weighted
PlainPairWeighted ==
    /\ IndexCalled
    /\ \E k \in 1..Len(Weighted) :
          /\ Computed[k] = <<"c", "a">>
          /\ Weighted[k].weights = <<1>>

\* C27: in get_conflict_index, the weight applied to the pair raster of
\* users (a, b) in the weighted sum is the entry of the lower triangle of
\* the conflict matrix for that pair (a, b), for every user name, names with
\* an underscore included
C27_WeightOfSamePair ==
    IndexCalled => \A k \in 1..Len(Weighted) : WeightOfPair(k)

(***************************************************************************)
(* project.setup_habitats.  A habitats layer of a database is the list of  *)
(* its features, the id of a feature being its place in the list; a        *)
(* feature holds the values of its fields and the cells it covers.  The    *)
(* rules of a layer are a list of dicts {"name", "values"} or None.        *)
(***************************************************************************)
MaxFeatures == 256  \* most features of a habitats layer

ByteNoData == 255   \* dc_params["NODATA"] with to_byte
ByteMax == 255      \* the largest value of the Byte data type
FloatNoData == -99999

ErrNotSubscriptable == "TypeError: 'NoneType' object is not subscriptable"

HabitatLayers == <<"habitats_benthic", "habitats_pelagic">>

\* hab.split("_")[-1]
hab_type(hab) == IF hab = "habitats_benthic" THEN "benthic" ELSE "pelagic"

\* processing.run("native:fieldcalculator"): the layer OUTPUT of the database
\* is the layer INPUT with the field "raster" set to the id of the feature
fieldcalculator(d, output_db, input_layer, layer_grouped) ==
    LET src == d[output_db].layers[input_layer]
        out == [i \in 1..Len(src) |->
                  [code |-> src[i].code, cover |-> src[i].cover, raster |-> i,
                   group_name |-> "", group_id |-> 0]]
    IN  write_file(d, output_db,
            [kind |-> "gpkg",
             layers |-> (layer_grouped :> out) @@ d[output_db].layers])

\* the loop over the values of a rule: name_mapping[val] = group_name
RECURSIVE values_loop(_, _, _, _)
values_loop(name_mapping, values, group_name, k) ==
    IF k > Len(values) THEN name_mapping
    ELSE values_loop((values[k] :> group_name) @@ name_mapping, values,
                     group_name, k + 1)

\* the loop over the rules, from rule k on: the two lookup dictionaries
RECURSIVE rules_loop(_, _, _, _, _)
rules_loop(rules, name_mapping, id_mapping, current_id, k) ==
    IF k > Len(rules)
    THEN [name_mapping |-> name_mapping, id_mapping |-> id_mapping]
    ELSE
        LET group_name == rules[k].name
            seen == group_name \in DOMAIN id_mapping
        IN  rules_loop(rules,
                values_loop(name_mapping, rules[k].values, group_name, 1),
                IF seen THEN id_mapping
                ELSE (group_name :> current_id) @@ id_mapping,
                IF seen THEN current_id ELSE current_id + 1,
                k + 1)

\* gdf[...] = ...: the columns group_name, group_id and raster of the
\* features under the rules of the layer
group_rows(gdf, rules) ==
    IF rules.given
    THEN
        LET m == rules_loop(rules.list, <<>>, <<>>, 1, 1)
        IN  [i \in 1..Len(gdf) |->
                LET group_name == IF gdf[i].code \in DOMAIN m.name_mapping
                                  THEN m.name_mapping[gdf[i].code]
                                  ELSE "UNGROUPED"
                    group_id == IF group_name \in DOMAIN m.id_mapping
                                THEN m.id_mapping[group_name] ELSE 0
                IN  [code |-> gdf[i].code, cover |-> gdf[i].cover,
                     raster |-> group_id, group_name |-> group_name,
                     group_id |-> group_id]]
    ELSE [i \in 1..Len(gdf) |->
            [code |-> gdf[i].code, cover |-> gdf[i].cover,
             raster |-> gdf[i].raster, group_name |-> gdf[i].code,
             group_id |-> gdf[i].raster]]

\* gdf.to_file(output_db, layer=layer_grouped) and fiona.remove(output_db,
\* layer=hab)
to_file_and_remove(d, output_db, layer_grouped, gdf, hab) ==
    LET old == d[output_db].layers
    IN  write_file(d, output_db,
            [kind |-> "gpkg",
             layers |-> [n \in (DOMAIN old \cup {layer_grouped}) \ {hab} |->
                           IF n = layer_grouped THEN gdf ELSE old[n]]])

\* the value that the features of the layer burn in cell (i, j): that of
\* the last feature that covers the cell, else the value of the cell
burn_cell(features, use_field, old, i, j) ==
    LET over == {k \in 1..Len(features) : features[k].cover[i][j] = 1}
    IN  IF over = {} THEN old
        ELSE Num(features[CHOOSE k \in over : \A l \in over : l <= k][use_field])

\* util_rasterize_layer with use_field: processing.run("gdal:rasterize_over")
rasterize_over(d, input_raster, input_db, input_layer, use_field) ==
    LET old == d[input_raster]
        features == d[input_db].layers[input_layer]
        new == [i \in 1..Len(old.data) |->
                  [j \in 1..Len(old.data[i]) |->
                      burn_cell(features, use_field, old.data[i][j], i, j)]]
    IN  write_file(d, input_raster,
                   [data |-> Strict(new), metadata |-> old.metadata])

\* the value v of a cell in the data type of the output: Byte (1) holds
\* 0..255 and a value out of the range is clipped to it; Float32 (6)
to_data_type(v, data_type) ==
    IF data_type = 1 /\ IsFin(v)
    THEN (IF v.n > ByteMax * v.d THEN Num(ByteMax)
          ELSE IF v.n < 0 THEN Num(0) ELSE v)
    ELSE v

\* processing.run("gdal:translate", dc_params)
gdal_translate(d, dc_params) ==
    LET src == d[dc_params.INPUT]
        out == [i \in 1..Len(src.data) |->
                  [j \in 1..Len(src.data[i]) |->
                      to_data_type(src.data[i][j], dc_params.DATA_TYPE)]]
    IN  write_file(d, dc_params.OUTPUT,
                   [data |-> Strict(out), metadata |-> src.metadata,
                    nodata |-> dc_params.NODATA,
                    data_type |-> dc_params.DATA_TYPE])

\* os.rename(src, dst)
os_rename(d, src, dst) == remove_file(write_file(d, dst, d[src]), src)

\* the body of the loop over the layers, for the layer hab
habitats_layer_body(d, pvars, folder_output, output_db, hab, groups) ==
    LET layer_grouped == hab \o "_grouped"
        raster_output == Join(folder_output, hab)
    IN  CHOOSE r \in
          {IF ~groups.given
           THEN [status |-> ErrNotSubscriptable, disk |-> d1, ret |-> ""]
           ELSE CHOOSE r2 \in
                  {[status |-> "ok",
                    disk |-> rasterize_over(d3, raster_output, output_db,
                                            layer_grouped, "raster"),
                    ret |-> raster_output] :
                   d3 \in {util_raster_blank(
                              to_file_and_remove(d1, output_db, layer_grouped,
                                  group_rows(d1[output_db].layers[layer_grouped],
                                             groups[hab_type(hab)]),
                                  hab),
                              raster_output, pvars.refraster)}} : TRUE :
           d1 \in {fieldcalculator(d, output_db, hab, layer_grouped)}} : TRUE

\* the body of the loop over the outputs, for the raster r
habitats_translate_body(d, r, to_byte) ==
    LET file_out == r \o "_aux"
        dc_params == [INPUT |-> r,
                      NODATA |-> IF to_byte THEN ByteNoData ELSE FloatNoData,
                      DATA_TYPE |-> IF to_byte THEN 1 ELSE 6,
                      OUTPUT |-> file_out]
    IN  CHOOSE r2 \in
          {os_rename(remove_file(d1, r), file_out, r) :
           d1 \in {gdal_translate(d, dc_params)}} : TRUE

(***************************************************************************)
(* Specification of project.setup_habitats: the call runs layer by layer,  *)
(* then output by output.                                                  *)
(***************************************************************************)
HabitatCodes == <<"MB3", "MB4", "MC3">>

\* a habitats layer of n features: the codes go round HabitatCodes, and the
\* features cover the two cells of the grid in turn
HabitatLayer(n) ==
    [i \in 1..n |->
        [code |-> HabitatCodes[((i - 1) % Len(HabitatCodes)) + 1],
         cover |-> IF i % 2 = 1 THEN <<<<1, 0>>>> ELSE <<<<0, 1>>>>]]

FeatureCounts == {2, MaxFeatures}

RuleNames == {"benthic_a", "benthic_b", "UNGROUPED"}

RuleValues == {<<"MB3">>, <<"MB4">>}

Rules == [name : RuleNames, values : RuleValues]

MaxRules == 3

\* the rules of a layer: None, or a list of rules
NoRules == [given |-> FALSE, list |-> <<>>]

RuleLists ==
    {NoRules}
    \cup {[given |-> TRUE, list |-> l] :
             l \in UNION {[1..n -> Rules] : n \in 0..MaxRules}}

PelagicRuleLists ==
    {NoRules,
     [given |-> TRUE, list |-> <<[name |-> "benthic_a", values |-> <<"MB3">>]>>]}

\* the argument groups: None (the default), or the rules of the two layers
HabitatGroupsArgs ==
    {[given |-> FALSE, benthic |-> NoRules, pelagic |-> NoRules]}
    \cup {[given |-> TRUE, benthic |-> b, pelagic |-> p] :
             b \in RuleLists, p \in PelagicRuleLists}

\* the disk of the project, the pelagic layer having n features
HabitatsDisk(n) ==
    LET inputs == Join(Project, "inputs")
        folders == {Project, inputs, Join(inputs, "habitats")}
        db == Join(inputs, "vectors.gpkg")
        ref == Join(inputs, "bathymetry")
    IN  [p \in folders \cup {db, ref} |->
            IF p \in folders THEN Folder
            ELSE IF p = db
            THEN [kind |-> "gpkg",
                  layers |-> [habitats_benthic |-> HabitatLayer(Len(HabitatCodes)),
                              habitats_pelagic |-> HabitatLayer(n)]]
            ELSE RasterOf(BathymetryGrid, "bathymetry")]

InitHabitats ==
    \E n \in FeatureCounts, groups \in HabitatGroupsArgs, to_byte \in BOOLEAN :
        /\ disk = HabitatsDisk(n)
        /\ call = [op |-> "setup_habitats", folder_project |-> Project,
                   habitat_field |-> "code", groups |-> groups,
                   to_byte |-> to_byte]
        /\ status = "pending"
        /\ ret = <<>>
        /\ reads = <<>>
        /\ runs = <<>>
        /\ pc = "call"
        /\ locals = <<>>
        /\ steps = <<>>
        /\ now = 0

\* the entry of the call: the project variables and the reprojected layers
habitats_call ==
    /\ call.op = "setup_habitats"
    /\ pc = "call"
    /\ \E pv \in {_get_project_vars(disk, call.folder_project)} :
          IF pv.status # "ok"
          THEN /\ status' = pv.status
               /\ pc' = "raised"
               /\ UNCHANGED <<disk, locals>>
          ELSE \E r \in {util_reproject_vectors(disk, pv.pvars.vectors,
                             HabitatLayers, Join(pv.pvars.folder_inputs, "habitats"),
                             "habitats")} :
                  /\ disk' = r.disk
                  /\ locals' = [i |-> 1, ls_outputs |-> <<>>, output_db |-> r.ret,
                                folder_output |-> Join(pv.pvars.folder_inputs,
                                                       "habitats"),
                                pvars |-> pv.pvars]
                  /\ pc' = "layers"
                  /\ UNCHANGED status
    /\ UNCHANGED <<call, ret, reads, runs, steps, now>>

\* one turn of the loop over the layers
habitats_layer ==
    /\ call.op = "setup_habitats"
    /\ pc = "layers"
    /\ \E r \in {habitats_layer_body(disk, locals.pvars, locals.folder_output,
                                     locals.output_db, HabitatLayers[locals.i],
                                     call.groups)} :
          /\ disk' = r.disk
          /\ IF r.status # "ok"
             THEN /\ status' = r.status
                  /\ pc' = "raised"
                  /\ UNCHANGED locals
             ELSE /\ locals' = [locals EXCEPT
                                   !.i = IF locals.i = Len(HabitatLayers)
                                         THEN 1 ELSE locals.i + 1,
                                   !.ls_outputs = Append(@, r.ret)]
                  /\ pc' = IF locals.i = Len(HabitatLayers)
                           THEN "translate" ELSE "layers"
                  /\ UNCHANGED status
    /\ UNCHANGED <<call, ret, reads, runs, steps, now>>

\* one turn of the loop over the outputs; after the last one the call
\* returns ls_outputs
habitats_translate ==
    /\ call.op = "setup_habitats"
    /\ pc = "translate"
    /\ disk' = habitats_translate_body(disk, locals.ls_outputs[locals.i],
                                       call.to_byte)
    /\ IF locals.i = Len(locals.ls_outputs)
       THEN /\ pc' = "done"
            /\ status' = "ok"
            /\ ret' = locals.ls_outputs
            /\ UNCHANGED locals
       ELSE /\ locals' = [locals EXCEPT !.i = locals.i + 1]
            /\ UNCHANGED <<pc, status, ret>>
    /\ UNCHANGED <<call, reads, runs, steps, now>>

NextHabitats == habitats_call \/ habitats_layer \/ habitats_translate

SpecHabitats == InitHabitats /\ [][NextHabitats]_vars

(***************************************************************************)
(* Claims on SpecHabitats.                                                 *)
(***************************************************************************)
\* the layers that the call has grouped so far
GroupedLayers ==
    IF call.op = "setup_habitats" /\ pc \in {"layers", "translate", "done"}
    THEN {HabitatLayers[k] : k \in 1..Len(locals.ls_outputs)}
    ELSE {}

GroupedFeatures(hab) == disk[locals.output_db].layers[hab \o "_grouped"]

RulesOf(hab) == call.groups[hab_type(hab)]

\* the rules whose values hold the code
RulesWith(rules, code) ==
    {k \in 1..Len(rules) : \E v \in 1..Len(rules[k].values) : rules[k].values[v] = code}

\* one more than the number of distinct names that appear before the first
\* rule of the name
IdByFirstAppearance(rules, name) ==
    LET first == CHOOSE k \in 1..Len(rules) :
                    /\ rules[k].name = name
                    /\ \A l \in 1..(k - 1) : rules[l].name # name
    IN  Cardinality({rules[l].name : l \in 1..(first - 1)}) + 1

\* the group of one feature is as stated
FeatureGrouped(rules, f) ==
    /\ f.raster = f.group_id
    /\ IF RulesWith(rules, f.code) = {}
       THEN f.group_name = "UNGROUPED" /\ f.group_id = 0
       ELSE /\ \E k \in RulesWith(rules, f.code) : f.group_name = rules[k].name
            /\ f.group_id = IdByFirstAppearance(rules, f.group_name)

\* C28: in project.setup_habitats with a rule list that is not None, the
\* group ids are 1, 2, ... in the order of first appearance of each distinct
\* group name (one id for a name, different ids for different names), every
\* feature whose habitat value is in no rule has the group name "UNGROUPED"
\* and the id 0, and the "raster" value of a feature equals its group id
C28_GroupIds ==
    \A hab \in GroupedLayers :
        RulesOf(hab).given =>
            \A i \in 1..Len(GroupedFeatures(hab)) :
                FeatureGrouped(RulesOf(hab).list, GroupedFeatures(hab)[i])

\* the same, for the rule lists without a rule named "UNGROUPED"
GroupIdsWithoutUngroupedRule ==
    \A hab \in GroupedLayers :
        (/\ RulesOf(hab).given
         /\ \A k \in 1..Len(RulesOf(hab).list) :
               RulesOf(hab).list[k].name # "UNGROUPED") =>
            \A i \in 1..Len(GroupedFeatures(hab)) :
                FeatureGrouped(RulesOf(hab).list, GroupedFeatures(hab)[i])

\* a layer was grouped by three rules of two names, the second name first
\* met in the second rule
GroupedByRepeatedName ==
    /\ "habitats_benthic" \in GroupedLayers
    /\ RulesOf("habitats_benthic").given
    /\ RulesOf("habitats_benthic").list
         = <<[name |-> "benthic_b", values |-> <<"MB3">>],
             [name |-> "benthic_a", values |-> <<"MB4">>],
             [name |-> "benthic_b", values |-> <<"MB4">>]>>
    /\ GroupedFeatures("habitats_benthic")[2].group_id = 1
    /\ GroupedFeatures("habitats_benthic")[3].group_id = 0

\* the cells of the raster of a layer as its features burn them on the
\* blank raster
BurnedCell(hab, i, j) ==
    burn_cell(GroupedFeatures(hab), "raster", Num(0), i, j)

HabitatRaster(hab) == disk[Join(locals.folder_output, hab)]

\* C29: in project.setup_habitats with to_byte=True, every value burned in
\* a habitat raster (the group id, or the feature id when the rules of the
\* layer are None) is in the Byte range 0..254 and differs from the no-data
\* value 255, so that the conversion to Byte leaves every valid cell as it
\* was burned and makes none of them no-data
C29_BurnedValuesFitByte ==
    (call.op = "setup_habitats" /\ call.to_byte) =>
        /\ \A hab \in GroupedLayers :
              \A i \in 1..Len(GroupedFeatures(hab)) :
                  /\ GroupedFeatures(hab)[i].raster \in 0..(ByteMax - 1)
                  /\ GroupedFeatures(hab)[i].raster # ByteNoData
        /\ pc = "done" =>
              \A hab \in GroupedLayers :
                  \A i \in 1..Len(HabitatRaster(hab).data) :
                      \A j \in 1..Len(HabitatRaster(hab).data[i]) :
                          /\ HabitatRaster(hab).data[i][j] = BurnedCell(hab, i, j)
                          /\ HabitatRaster(hab).data[i][j] # Num(HabitatRaster(hab).nodata)

\* the same, for the layers with a rule list: the group ids fit
GroupIdsFitByte ==
    (call.op = "setup_habitats" /\ call.to_byte) =>
        /\ \A hab \in GroupedLayers :
              RulesOf(hab).given =>
                  \A i \in 1..Len(GroupedFeatures(hab)) :
                      GroupedFeatures(hab)[i].raster \in 0..(ByteMax - 1)
        /\ pc = "done" =>
              \A hab \in GroupedLayers :
                  RulesOf(hab).given =>
                      \A i \in 1..Len(HabitatRaster(hab).data) :
                          \A j \in 1..Len(HabitatRaster(hab).data[i]) :
                              /\ HabitatRaster(hab).data[i][j] = BurnedCell(hab, i, j)
                              /\ HabitatRaster(hab).data[i][j]
                                   # Num(HabitatRaster(hab).nodata)

(***************************************************************************)
(* dev/checkout.py: the interactive workflow.  What the user types is a    *)
(* sequence of characters; runs is the log of the commands run, each with  *)
(* the turn of the loop of main that ran it and whether it succeeded; the  *)
(* disk is the git repository: its tags and the tags of the remote.        *)
(***************************************************************************)
MaxIterations == 2  \* most turns of the loop of main
MaxClears == 1      \* most answers "clear" to the prompt of handle_push

OptY == <<"y">>
OptN == <<"n">>
OptExit == <<"e", "x", "i", "t">>
OptClear == <<"c", "l", "e", "a", "r">>
OptCancel == <<"c", "a", "n", "c", "e", "l">>

RefMain == <<"m", "a", "i", "n">>

\* str.strip(): the blanks at both ends are dropped
RECURSIVE lstrip(_)
lstrip(s) == IF s # <<>> /\ Head(s) = " " THEN lstrip(Tail(s)) ELSE s

RECURSIVE rstrip(_)
rstrip(s) ==
    IF s # <<>> /\ s[Len(s)] = " " THEN rstrip(SubSeq(s, 1, Len(s) - 1)) ELSE s

strip(s) == rstrip(lstrip(s))

\* str.lower()
lower(s) ==
    [i \in 1..Len(s) |->
        CASE s[i] = "Y" -> "y"
          [] s[i] = "N" -> "n"
          [] s[i] = "E" -> "e"
          [] s[i] = "X" -> "x"
          [] OTHER -> s[i]]

\* the options of fork
fork_options(exit_option, clear_option) ==
    {OptY, OptN}
    \cup (IF exit_option # <<>> THEN {exit_option} ELSE {})
    \cup (IF clear_option THEN {OptClear} ELSE {})

\* one turn of the loop of fork on the line typed: the answer, if the line
\* is one of the options
fork(exit_option, clear_option, line) ==
    LET s_inp == lower(strip(line))
    IN  [done |-> s_inp \in fork_options(exit_option, clear_option),
         s_inp |-> s_inp]

\* subprocess.run(cmd) in turn iter of the loop of main
Cmd(prog, args, ref, ok, iter) ==
    [prog |-> prog, args |-> args, ref |-> ref, ok |-> ok, iter |-> iter]

Clear(iter) == Cmd("clear", "", <<>>, TRUE, iter)
GitTag(iter) == Cmd("git", "tag", <<>>, TRUE, iter)
GitStatus(iter) == Cmd("git", "status", <<>>, TRUE, iter)

\* git tag -a stag -m tag_msg: fails for an empty name and for a tag that
\* exists
git_tag_a(d, stag) ==
    IF stag = <<>> \/ stag \in d.tags THEN [ok |-> FALSE, disk |-> d]
    ELSE [ok |-> TRUE, disk |-> [d EXCEPT !.tags = @ \cup {stag}]]

\* git push origin ref: the branch main, or a tag of the repository
git_push(d, ref) ==
    IF ref = RefMain THEN [ok |-> TRUE, disk |-> d]
    ELSE IF ref \in d.tags
    THEN [ok |-> TRUE, disk |-> [d EXCEPT !.remote = @ \cup {ref}]]
    ELSE [ok |-> FALSE, disk |-> d]

\* build_docs and run_tests
build_docs(iter) == <<Cmd("python", "-m dev.docs", <<>>, TRUE, iter)>>
run_tests(iter) == <<Cmd("python", "-m dev.tests", <<>>, TRUE, iter)>>

\* run_style
run_style(iter) == <<Cmd("black", ".", <<>>, TRUE, iter)>>

\* exiting
exiting(iter) == <<Clear(iter)>>

\* an optional string: None, or the string
NoneStr == [given |-> FALSE, str |-> <<>>]
Str(s) == [given |-> TRUE, str |-> s]

\* the lines that the user types at a prompt of fork
ForkLines ==
    {OptY, <<"Y", " ">>, OptN, OptExit, <<" ", "E", "x", "i", "t">>, OptClear,
     OptCancel, <<"q">>, <<>>}

\* the lines that the user types as a commit message and as a tag
MessageLines == {<<"m">>}
TagLines == {<<"v", "1">>, <<" ", "v", "2">>, <<>>}

\* the answer of a prompt, as the log of the prompts keeps it
Answer(prompt, s) == [prompt |-> prompt, s |-> s]

AskBuild == "Build Docs and Run Tests?"
AskChanges == "Add/commit/push new changes?"
AskPublish == "Publish main branch to remote?"

InitCheckout ==
    \E tags \in SUBSET {<<"v", "1">>} :
        /\ disk = [tags |-> tags, remote |-> {}]
        /\ call = [op |-> "checkout"]
        /\ status = "pending"
        /\ ret = <<>>
        /\ reads = <<>>
        /\ runs = <<>>
        /\ pc = "main"
        /\ locals = [iter |-> 0, stag |-> NoneStr, s_inp |-> NoneStr, clears |-> 0]
        /\ steps = <<>>
        /\ now = 0

\* the top of the loop of main: the screen is cleared
main_loop ==
    /\ call.op = "checkout"
    /\ pc = "main"
    /\ locals.iter < MaxIterations
    /\ runs' = Append(runs, Clear(locals.iter + 1))
    /\ locals' = [iter |-> locals.iter + 1, stag |-> NoneStr, s_inp |-> NoneStr,
                  clears |-> 0]
    /\ steps' = <<>>
    /\ pc' = "fork_build"
    /\ UNCHANGED <<disk, call, status, ret, reads, now>>

\* main: the answer to "Build Docs and Run Tests?", up to the next prompt
ask_build ==
    /\ call.op = "checkout"
    /\ pc = "fork_build"
    /\ \E line \in ForkLines :
          \E f \in {fork(OptExit, FALSE, line)} :
              /\ f.done
              /\ steps' = Append(steps, Answer(AskBuild, f.s_inp))
              /\ IF f.s_inp = OptExit
                 THEN /\ runs' = runs \o exiting(locals.iter)
                      /\ pc' = "done"
                      /\ status' = "ok"
                 ELSE /\ runs' = runs
                                 \o (IF f.s_inp = OptY
                                     THEN build_docs(locals.iter)
                                          \o run_tests(locals.iter)
                                     ELSE <<>>)
                                 \o run_style(locals.iter)
                                 \o <<GitTag(locals.iter), GitStatus(locals.iter)>>
                      /\ pc' = "fork_changes"
                      /\ UNCHANGED status
    /\ UNCHANGED <<disk, call, ret, reads, locals, now>>

\* main: the answer to "Add/commit/push new changes?", up to the next prompt
ask_changes ==
    /\ call.op = "checkout"
    /\ pc = "fork_changes"
    /\ \E line \in ForkLines :
          \E f \in {fork(OptExit, FALSE, line)} :
              /\ f.done
              /\ steps' = Append(steps, Answer(AskChanges, f.s_inp))
              /\ IF f.s_inp = OptExit
                 THEN /\ runs' = runs \o exiting(locals.iter)
                      /\ pc' = "done"
                      /\ status' = "ok"
                 ELSE IF f.s_inp = OptY
                 THEN /\ runs' = runs
                                 \o <<Cmd("git", "add .", <<>>, TRUE, locals.iter),
                                      GitStatus(locals.iter)>>
                      /\ pc' = "fork_commit"
                      /\ UNCHANGED status
                 ELSE /\ pc' = "main"
                      /\ UNCHANGED <<runs, status>>
    /\ UNCHANGED <<disk, call, ret, reads, locals, now>>

\* handle_commit: the answer to "Commit changes?"
ask_commit ==
    /\ call.op = "checkout"
    /\ pc = "fork_commit"
    /\ \E line \in ForkLines :
          \E f \in {fork(<<>>, FALSE, line)} :
              /\ f.done
              /\ IF f.s_inp = OptY
                 THEN /\ pc' = "input_commit"
                      /\ UNCHANGED runs
                 ELSE /\ pc' = "fork_tag"
                      /\ runs' = Append(runs, GitTag(locals.iter))
    /\ UNCHANGED <<disk, call, status, ret, reads, locals, steps, now>>

\* user_input: the line typed as the commit message or as the tag
input_line ==
    /\ call.op = "checkout"
    /\ pc \in {"input_commit", "input_tag"}
    /\ \E line \in (IF pc = "input_commit" THEN MessageLines ELSE TagLines) :
          locals' = [locals EXCEPT !.s_inp = Str(strip(line))]
    /\ pc' = IF pc = "input_commit" THEN "confirm_commit" ELSE "confirm_tag"
    /\ UNCHANGED <<disk, call, status, ret, reads, runs, steps, now>>

\* user_input and handle_commit: the answer to "Confirm input", then the
\* commit, up to the prompt of handle_tag
confirm_commit ==
    /\ call.op = "checkout"
    /\ pc = "confirm_commit"
    /\ \E line \in ForkLines :
          \E f \in {fork(OptCancel, FALSE, line)} :
              /\ f.done
              /\ IF f.s_inp = OptN
                 THEN /\ pc' = "input_commit"
                      /\ UNCHANGED <<runs, locals>>
                 ELSE /\ pc' = "fork_tag"
                      /\ locals' = [locals EXCEPT !.s_inp = NoneStr]
                      /\ runs' = runs
                                 \o (IF f.s_inp = OptY
                                     THEN <<Cmd("git", "commit -m", locals.s_inp.str,
                                                TRUE, locals.iter)>>
                                     ELSE <<>>)
                                 \o <<GitTag(locals.iter)>>
    /\ UNCHANGED <<disk, call, status, ret, reads, steps, now>>

\* handle_tag: the answer to "Enter new tag?"
ask_tag ==
    /\ call.op = "checkout"
    /\ pc = "fork_tag"
    /\ \E line \in ForkLines :
          \E f \in {fork(<<>>, FALSE, line)} :
              /\ f.done
              /\ pc' = IF f.s_inp = OptY THEN "input_tag" ELSE "fork_push"
    /\ UNCHANGED <<disk, call, status, ret, reads, runs, locals, steps, now>>

\* user_input and handle_tag: the answer to "Confirm input", then the tag;
\* handle_tag returns stag
confirm_tag ==
    /\ call.op = "checkout"
    /\ pc = "confirm_tag"
    /\ \E line \in ForkLines :
          \E f \in {fork(OptCancel, FALSE, line)} :
              /\ f.done
              /\ IF f.s_inp = OptN
                 THEN /\ pc' = "input_tag"
                      /\ UNCHANGED <<runs, locals, disk>>
                 ELSE IF f.s_inp = OptCancel
                 THEN /\ pc' = "fork_push"
                      /\ locals' = [locals EXCEPT !.s_inp = NoneStr]
                      /\ UNCHANGED <<runs, disk>>
                 ELSE \E r \in {git_tag_a(disk, locals.s_inp.str)} :
                      /\ pc' = "fork_push"
                      /\ disk' = r.disk
                      /\ runs' = runs
                                 \o <<Cmd("git", "tag -a", locals.s_inp.str, r.ok,
                                          locals.iter),
                                      GitTag(locals.iter)>>
                      /\ locals' = [locals EXCEPT !.stag = locals.s_inp,
                                                  !.s_inp = NoneStr]
    /\ UNCHANGED <<call, status, ret, reads, steps, now>>

\* handle_push: the answer to "Publish main branch to remote?"
ask_push ==
    /\ call.op = "checkout"
    /\ pc = "fork_push"
    /\ \E line \in ForkLines :
          \E f \in {fork(<<>>, TRUE, line)} :
              /\ f.done
              /\ f.s_inp = OptClear => locals.clears < MaxClears
              /\ steps' = Append(steps, Answer(AskPublish, f.s_inp))
              /\ IF f.s_inp = OptY
                 THEN \E m \in {git_push(disk, RefMain)} :
                      \E t \in {IF locals.stag.given
                                THEN git_push(m.disk, locals.stag.str)
                                ELSE m} :
                          /\ disk' = t.disk
                          /\ runs' = runs
                                     \o <<Cmd("git", "push origin", RefMain, m.ok,
                                              locals.iter)>>
                                     \o (IF locals.stag.given
                                         THEN <<Cmd("git", "push origin",
                                                    locals.stag.str, t.ok,
                                                    locals.iter)>>
                                         ELSE <<>>)
                          /\ pc' = "main"
                          /\ UNCHANGED locals
                 ELSE IF f.s_inp = OptN
                 THEN /\ pc' = "main"
                      /\ UNCHANGED <<disk, runs, locals>>
                 ELSE /\ runs' = Append(runs, Clear(locals.iter))
                      /\ locals' = [locals EXCEPT !.clears = @ + 1]
                      /\ UNCHANGED <<disk, pc>>
    /\ UNCHANGED <<call, status, ret, reads, now>>

NextCheckout ==
    \/ main_loop
    \/ ask_build
    \/ ask_changes
    \/ ask_commit
    \/ input_line
    \/ confirm_commit
    \/ ask_tag
    \/ confirm_tag
    \/ ask_push

SpecCheckout == InitCheckout /\ [][NextCheckout]_vars

(***************************************************************************)
(* Claims on SpecCheckout.                                                 *)
(***************************************************************************)
IsGit(c) == c.prog = "git"

IsPush(c) == c.prog = "git" /\ c.args = "push origin"

IsTagPush(c) == IsPush(c) /\ c.ref # RefMain

\* the commands that the step runs
NewRuns == SubSeq(runs', Len(runs) + 1, Len(runs'))

\* the step reads an answer at a prompt of main or of handle_push
Answers == steps' # steps /\ steps' # <<>>

\* a step that runs git push is one in which the user answers "y" to the
\* prompt of handle_push, after "y" to "Add/commit/push new changes?" in
\* the same turn of the loop
PushAfterYesYes ==
    (\E k \in 1..Len(NewRuns) : IsPush(NewRuns[k])) =>
        /\ Answers
        /\ steps'[Len(steps')] = Answer(AskPublish, OptY)
        /\ \E i \in 1..(Len(steps') - 1) : steps'[i] = Answer(AskChanges, OptY)
        /\ \A k \in 1..Len(NewRuns) : NewRuns[k].iter = locals.iter

\* the push of a tag comes right after the push of main of the same turn
TagPushAfterMain ==
    \A k \in 1..Len(runs) :
        IsTagPush(runs[k]) =>
            /\ k > 1
            /\ IsPush(runs[k - 1])
            /\ runs[k - 1].ref = RefMain
            /\ runs[k - 1].iter = runs[k].iter

\* git tag -a was run for the tag pushed, in the same turn
TagPushAfterTagCommand ==
    \A k \in 1..Len(runs) :
        IsTagPush(runs[k]) =>
            \E j \in 1..(k - 1) :
                /\ runs[j].prog = "git" /\ runs[j].args = "tag -a"
                /\ runs[j].ref = runs[k].ref
                /\ runs[j].iter = runs[k].iter

\* the tag pushed was created in the same turn
TagPushedWasCreated ==
    \A k \in 1..Len(runs) :
        (IsTagPush(runs[k]) /\ runs[k].ok) =>
            \E j \in 1..(k - 1) :
                /\ runs[j].prog = "git" /\ runs[j].args = "tag -a"
                /\ runs[j].ref = runs[k].ref
                /\ runs[j].iter = runs[k].iter
                /\ runs[j].ok

\* with the answer "exit" at a prompt of main, main returns and runs no git
\* command; after that nothing is run
ExitEnds ==
    /\ (Answers /\ steps'[Len(steps')].s = OptExit) =>
          /\ pc' = "done"
          /\ status' = "ok"
          /\ \A k \in 1..Len(NewRuns) : ~IsGit(NewRuns[k])
    /\ pc = "done" => runs' = runs

\* the statement with "created" read as "git tag -a was run for it"
CheckoutByCommands ==
    /\ []TagPushAfterMain
    /\ []TagPushAfterTagCommand
    /\ [][PushAfterYesYes /\ ExitEnds]_vars

\* a tag made in the turn was pushed after main, and main returned on "exit"
\* in the next turn
TagPushedThenExit ==
    /\ call.op = "checkout" /\ pc = "done" /\ status = "ok"
    /\ \E k \in 1..Len(runs) : IsTagPush(runs[k]) /\ runs[k].ok /\ runs[k].iter = 1
    /\ runs[Len(runs)] = Clear(MaxIterations)

\* C30: in any run of the checkout CLI, git push is run only in a turn of
\* the loop in which the user answered "y" to "Add/commit/push new changes?"
\* and then "y" to "Publish main branch to remote?"; a tag is pushed only if
\* it was created in that same turn, and only after the push of main; and
\* once the user enters "exit" at a prompt of main, no further git command
\* is run and main returns
C30_PushOnlyOnYesYes ==
    /\ []TagPushAfterMain
    /\ []TagPushedWasCreated
    /\ [][PushAfterYesYes /\ ExitEnds]_vars

=============================================================================
